---- MODULE Spec2Model ----
(***************************************************************************)
(* The enclave-side Protocol Server of proofport-ai (aws/enclave-server.py):*)
(* handle_connection, dispatch, the three handlers, the proof pipeline      *)
(* generate_proof and the attestation client get_nsm_attestation.           *)
(*                                                                          *)
(* A connection is a record conns[t] owned by the worker thread t that      *)
(* run_server started for it.  The file system (circuit artifacts and the   *)
(* per-request workspaces under CIRCUIT_BASE_DIR) is the only state the     *)
(* workers share.  The peers, the two external tools and the NSM device are *)
(* the environment: every outcome they can produce is a nondeterministic    *)
(* choice of the action that calls them.                                    *)
(***************************************************************************)
EXTENDS Integers, Sequences, FiniteSets, TLC

VARIABLES
    conns,      \* conns[t]: the connection worker thread t is handling
    artifacts,  \* the circuit artifact files present under CIRCUIT_BASE_DIR
    fs,         \* fs[name]: the workspace directory `name`, while it exists
    links,      \* links[b]: the connection pair bridge worker b is relaying
    nsm,        \* the attestation device and the calls of get_nsm_attestation
    relay       \* one request relayed by the bridge to the server, with time

vars == <<conns, artifacts, fs, links, nsm, relay>>

----------------------------------------------------------------------------
(* Program constants                                                       *)

PROVE_TIMEOUT_SECONDS == 120

CIRCUIT_BASE_DIR == "/app/circuits"

\* The registry: canonical circuit id -> directory and artifact file names.
CIRCUITS ==
    [coinbase_attestation |->
         [dir |-> "coinbase-attestation",
          bytecode |-> "coinbase_attestation.json", vk |-> "vk/vk"],
     coinbase_country_attestation |->
         [dir |-> "coinbase-country-attestation",
          bytecode |-> "coinbase_country_attestation.json", vk |-> "vk/vk"]]

\* CIRCUITS.keys(), in the insertion order of the dict literal.
CIRCUITS_keys == <<"coinbase_attestation", "coinbase_country_attestation">>

\* Python's None where a str is expected (request.get without a default).
PyNone == "<None>"

----------------------------------------------------------------------------
(* Bounds of the model                                                     *)

\* Random suffixes mkdtemp can draw for a workspace name.
MaxSuffix == 2

\* Longest list of positional inputs a client sends.
MaxInputs == 2

\* Longest byte sequence a peer of the bridge writes.
MaxPayload == 2

----------------------------------------------------------------------------
(* Text helpers: a text is a sequence of strings, read concatenated.       *)

Digits == <<"0", "1", "2", "3", "4", "5", "6", "7", "8", "9">>

\* str(n) for a natural number: its decimal digits.
RECURSIVE Dec(_)
Dec(n) == IF n < 10 THEN <<Digits[n + 1]>>
          ELSE Dec(n \div 10) \o <<Digits[(n % 10) + 1]>>

\* sep.join(items)
RECURSIVE Join(_, _)
Join(items, sep) ==
    IF Len(items) = 0 THEN <<>>
    ELSE IF Len(items) = 1 THEN <<items[1]>>
    ELSE <<items[1], sep>> \o Join(Tail(items), sep)

HexChars == <<"0", "1", "2", "3", "4", "5", "6", "7",
              "8", "9", "a", "b", "c", "d", "e", "f">>

\* bytes.hex(): two lower-case digits per byte, high nibble first.
RECURSIVE BytesHex(_)
BytesHex(bs) ==
    IF Len(bs) = 0 THEN <<>>
    ELSE <<HexChars[(bs[1] \div 16) + 1], HexChars[(bs[1] % 16) + 1]>>
         \o BytesHex(Tail(bs))

\* "0x" + bytes.hex()
Hex0x(bs) == <<"0", "x">> \o BytesHex(bs)

B64Chars == <<"A", "B", "C", "D", "E", "F", "G", "H", "I", "J", "K", "L", "M",
              "N", "O", "P", "Q", "R", "S", "T", "U", "V", "W", "X", "Y", "Z",
              "a", "b", "c", "d", "e", "f", "g", "h", "i", "j", "k", "l", "m",
              "n", "o", "p", "q", "r", "s", "t", "u", "v", "w", "x", "y", "z",
              "0", "1", "2", "3", "4", "5", "6", "7", "8", "9", "+", "/">>

\* base64.b64encode(bs).decode("ascii"): RFC 4648 with "=" padding.
RECURSIVE b64encode(_)
b64encode(bs) ==
    IF Len(bs) = 0 THEN <<>>
    ELSE IF Len(bs) = 1 THEN
        <<B64Chars[(bs[1] \div 4) + 1],
          B64Chars[((bs[1] % 4) * 16) + 1], "=", "=">>
    ELSE IF Len(bs) = 2 THEN
        <<B64Chars[(bs[1] \div 4) + 1],
          B64Chars[((bs[1] % 4) * 16 + (bs[2] \div 16)) + 1],
          B64Chars[((bs[2] % 16) * 4) + 1], "=">>
    ELSE
        <<B64Chars[(bs[1] \div 4) + 1],
          B64Chars[((bs[1] % 4) * 16 + (bs[2] \div 16)) + 1],
          B64Chars[((bs[2] % 16) * 4 + (bs[3] \div 64)) + 1],
          B64Chars[(bs[3] % 64) + 1]>>
        \o b64encode(SubSeq(bs, 4, Len(bs)))

\* hashlib.sha256(bs).digest(), kept symbolic: the marker 256 (no byte value)
\* followed by the preimage, so distinct inputs have distinct digests.
sha256(bs) == <<256>> \o bs

\* str.lstrip("0x"): drop every leading character that is "0" or "x".
RECURSIVE lstrip0x(_)
lstrip0x(s) ==
    IF Len(s) > 0 /\ s[1] \in {"0", "x"} THEN lstrip0x(Tail(s)) ELSE s

IsHexChar(c) == \E i \in 1..16 : HexChars[i] = c

HexVal(c) == (CHOOSE i \in 1..16 : HexChars[i] = c) - 1

\* bytes.fromhex(s) succeeds: an even number of hex digits.
fromhex_ok(s) == Len(s) % 2 = 0 /\ \A i \in 1..Len(s) : IsHexChar(s[i])

\* bytes.fromhex(s), for a text it accepts.
RECURSIVE fromhex(_)
fromhex(s) ==
    IF Len(s) < 2 THEN <<>>
    ELSE <<HexVal(s[1]) * 16 + HexVal(s[2])>> \o fromhex(SubSeq(s, 3, Len(s)))

----------------------------------------------------------------------------
(* Requests, responses and what the environment can produce                *)

\* dict.get(key, default)
Get(d, key, default) == IF key \in DOMAIN d THEN d[key] ELSE default

\* A JSON object with an optional member `key`.
Opt(key, vals) == {<<>>} \cup {key :> v : v \in vals}

\* The i-th positional input of a request: a decimal string.
InputValue(i) == Digits[((6 + i) % 10) + 1]

\* The `inputs` member: a JSON list of decimal strings, or a value of another
\* JSON type, falsy (items empty) or truthy.
InputsValues ==
    {[isList |-> TRUE, items |-> [i \in 1..n |-> InputValue(i)]] :
        n \in {0, MaxInputs}}
    \cup {[isList |-> FALSE, items |-> <<"x">>]}

\* request.get("inputs"): None when the member is absent.
NoInputs == [isList |-> FALSE, items |-> <<>>]

ProverTomls == {"", "amount = \"7\"\n"}

ProofHashes ==
    {<<>>,
     <<"0", "x", "a", "b">>,
     <<"0", "x", "0", "a", "1", "f">>,
     <<"a", "b", "c">>,
     <<"z", "z">>}

HealthRequests ==
    {("type" :> "health") @@ r : r \in Opt("requestId", {"r1"})}

UnknownRequests ==
    {ty @@ r : ty \in Opt("type", {"bogus"}), r \in Opt("requestId", {"r1"})}

AttestationRequests ==
    {("type" :> "attestation") @@ r @@ h :
        r \in Opt("requestId", {"r1"}), h \in Opt("proofHash", ProofHashes)}

ProveRequests ==
    {("type" :> "prove") @@ r @@ c @@ i @@ p :
        r \in Opt("requestId", {"r1"}),
        c \in Opt("circuitId",
                  {"", "halo2_demo", "coinbase_attestation",
                   "coinbase_country_attestation"}),
        i \in Opt("inputs", InputsValues),
        p \in Opt("proverToml", ProverTomls)}

Requests ==
    HealthRequests \cup UnknownRequests \cup AttestationRequests
    \cup ProveRequests

\* What a peer can have sent when reading ends: nothing, bytes that are not
\* UTF-8, text that is not JSON, a JSON value that is not an object, or the
\* JSON text of an object.
Bodies ==
    {[kind |-> k] : k \in {"empty", "non_utf8", "bad_json", "not_object"}}
    \cup {[kind |-> "object", obj |-> r] : r \in Requests}

\* How the read loop of handle_connection ends.
ReadEnds == {"eof", "timeout", "error"}

\* socket.sendall: everything written, or an exception after none or some of
\* the bytes were written.
SendOutcomes == {"full", "none", "partial"}

\* Why a sendall raises: the peer is gone, and every later write fails too,
\* or the 5 s socket timeout ran out while the peer was not reading.
SendFailures == {"Broken pipe", "timed out"}

\* Wall-clock durations of an external tool run.
ToolDurations ==
    {1, PROVE_TIMEOUT_SECONDS - 1, PROVE_TIMEOUT_SECONDS + 1}

ProofBytes == {<<10>>, <<255, 0>>}

PublicInputsBytes == {<<0, 1>>}

\* Attestation documents: non-empty COSE_Sign1 blobs signed by the device.
DocBytes == {<<77>>, <<77, 97, 110>>}

----------------------------------------------------------------------------
(* Exceptions and responses                                                *)

\* A raised Python exception: its class and str(e).
Exc(cls, msg) == [cls |-> cls, msg |-> msg]

NoExc == Exc("none", <<>>)

\* The classes `except ValueError` catches here.
ValueErrors == {"ValueError", "UnicodeDecodeError"}

ErrorResponse(request_id, msg) ==
    [type |-> "error", requestId |-> request_id, error |-> msg]

\* os.path.join(*parts)
os_path_join(parts) == Join(parts, "/")

get_circuit_paths_raises(circuit_id) == circuit_id \notin DOMAIN CIRCUITS

\* The ValueError of get_circuit_paths for an unknown circuit id.
get_circuit_paths_error(circuit_id) ==
    Exc("ValueError",
        <<"Unknown circuitId '", circuit_id, "'. ", "Supported: ">>
        \o Join(CIRCUITS_keys, ", "))

\* get_circuit_paths for a registered circuit id.
get_circuit_paths(circuit_id) ==
    LET meta == CIRCUITS[circuit_id]
        base == <<CIRCUIT_BASE_DIR, meta.dir>>
    IN  [dir |-> os_path_join(base),
         bytecode |-> os_path_join(base \o <<"target", meta.bytecode>>),
         vk |-> os_path_join(base \o <<"target", meta.vk>>)]

\* Every artifact file the image can hold.
AllArtifacts ==
    UNION {{get_circuit_paths(c).bytecode, get_circuit_paths(c).vk} :
              c \in DOMAIN CIRCUITS}

\* The artifact sets a deployed image is started with: complete, or with the
\* bytecode of one circuit or the verification key of the other missing.
ArtifactStates ==
    {AllArtifacts,
     AllArtifacts \ {get_circuit_paths("coinbase_attestation").bytecode},
     AllArtifacts \ {get_circuit_paths("coinbase_country_attestation").vk}}

\* "".join(texts)
RECURSIVE Concat(_)
Concat(texts) ==
    IF Len(texts) = 0 THEN <<>> ELSE texts[1] \o Concat(Tail(texts))

\* Variant of write_prover_toml: the indices start at 1.
write_prover_toml_one_based(inputs) ==
    LET lines == [i \in 1..Len(inputs) |->
                     <<"input_">> \o Dec(i)
                     \o <<" = \"", inputs[i], "\"">>]
    IN  Concat(Join(lines, <<"\n">>)) \o <<"\n">>

\* write_prover_toml: the text written to Prover.toml for a list of inputs.
write_prover_toml(inputs) ==
    LET lines == [i \in 1..Len(inputs) |->
                     <<"input_">> \o Dec(i - 1)
                     \o <<" = \"", inputs[i], "\"">>]
    IN  Concat(Join(lines, <<"\n">>)) \o <<"\n">>

\* The response of handle_connection to text json.loads rejects.
invalid_json_response ==
    ErrorResponse("", <<"Invalid JSON: ", "Expecting value">>)

\* Variant of server_error_response: requestId is None, not "".
server_error_response_null_id(e) ==
    ErrorResponse(PyNone, <<"Server error: ">> \o e.msg)

\* The response of the outer except clause of handle_connection.
server_error_response(e) == ErrorResponse("", <<"Server error: ">> \o e.msg)

\* Variant of handle_health: the fixed HEALTH_RESPONSE is returned.
handle_health_fixed(request) == [type |-> "health", status |-> "ok"]

\* handle_health
handle_health(request) ==
    [type |-> "health", requestId |-> Get(request, "requestId", ""),
     status |-> "ok"]

\* Variant of dispatch_unknown: the message does not quote the tag.
dispatch_unknown_untagged(request) ==
    ErrorResponse(Get(request, "requestId", ""), <<"Unknown request type">>)

\* The else branch of dispatch: no handler for this tag.
dispatch_unknown(request) ==
    ErrorResponse(Get(request, "requestId", ""),
                  <<"Unknown request type: '", Get(request, "type", "None"),
                    "'">>)

\* Variant of handle_prove_reject: only circuitId is checked.
handle_prove_reject_circuit_only(request) ==
    IF Get(request, "circuitId", PyNone) \in {PyNone, ""}
    THEN ErrorResponse(Get(request, "requestId", ""), <<"Missing circuitId">>)
    ELSE <<>>

\* The checks of handle_prove before it calls generate_proof: the Error
\* response they return, or <<>> when the request passes them.
handle_prove_reject(request) ==
    LET circuit_id == Get(request, "circuitId", PyNone)
        inputs == Get(request, "inputs", NoInputs)
        prover_toml == Get(request, "proverToml", PyNone)
        request_id == Get(request, "requestId", "")
    IN  IF circuit_id \in {PyNone, ""}
        THEN ErrorResponse(request_id, <<"Missing circuitId">>)
        ELSE IF prover_toml \in {PyNone, ""}
                /\ (inputs.items = <<>> \/ ~inputs.isList)
        THEN ErrorResponse(request_id, <<"Missing proverToml or inputs">>)
        ELSE <<>>

\* Variant of handle_prove_except: the requestId is not passed on.
handle_prove_except_no_id(request_id, e) ==
    IF e.cls = "TimeoutExpired"
    THEN ErrorResponse("", <<"Proof generation timed out after ">>
                           \o Dec(PROVE_TIMEOUT_SECONDS) \o <<"s">>)
    ELSE ErrorResponse("", e.msg)

\* The except clauses of handle_prove, in their order.
handle_prove_except(request_id, e) ==
    IF e.cls \in ValueErrors THEN ErrorResponse(request_id, e.msg)
    ELSE IF e.cls = "TimeoutExpired"
    THEN ErrorResponse(request_id,
                       <<"Proof generation timed out after ">>
                       \o Dec(PROVE_TIMEOUT_SECONDS) \o <<"s">>)
    ELSE IF e.cls = "RuntimeError" THEN ErrorResponse(request_id, e.msg)
    ELSE ErrorResponse(request_id, <<"Internal error: ">> \o e.msg)

\* The Proof response handle_prove builds from generate_proof's result.
handle_prove_response(request_id, result) ==
    [type |-> "proof", requestId |-> request_id, proof |-> result.proof,
     publicInputs |-> result.publicInputs]
    @@ (IF "attestationDocument" \in DOMAIN result
        THEN "attestationDocument" :> result.attestationDocument
        ELSE <<>>)

----------------------------------------------------------------------------
(* The attestation client                                                  *)

\* What the NSM device answers when the ioctl succeeds.
NsmResponses ==
    {[Attestation |-> [document |-> d]] : d \in DocBytes}
    \cup {[Attestation |-> [digest |-> "SHA384"]],
          [Error |-> "InvalidArgument"],
          [GetRandom |-> "none"]}

\* A well-behaved device, answering `response`.
NsmAnswers(response) ==
    [exists |-> TRUE, cbor2 |-> TRUE, open_ok |-> TRUE, ioctl_ok |-> TRUE,
     actual_len |-> 1, decodable |-> TRUE, response |-> response]

\* The environments of one get_nsm_attestation call: the device file may be
\* missing, cbor2 not installed, os.open or the ioctl may fail, the device
\* may report a zero length or bytes cbor2 cannot decode, or it answers.
NsmDevices ==
    {[NsmAnswers([Error |-> "none"]) EXCEPT ![f] = FALSE] :
        f \in {"exists", "cbor2", "open_ok", "ioctl_ok", "decodable"}}
    \cup {[NsmAnswers([Error |-> "none"]) EXCEPT !.actual_len = 0]}
    \cup {NsmAnswers(r) : r \in NsmResponses}

\* Python's None / a bytes value, as get_nsm_attestation returns them.
None == [some |-> FALSE, bytes |-> <<>>]

Some(bs) == [some |-> TRUE, bytes |-> bs]

\* `if nsm_doc:`
Truthy(v) == v.some /\ v.bytes # <<>>

\* How a call ends: it returns a value, or an exception of class cls
\* propagates to the caller.
Returns(v) == [raised |-> FALSE, value |-> v, cls |-> "none"]

Raises(cls) == [raised |-> TRUE, value |-> None, cls |-> cls]

\* The try block of get_nsm_attestation against the device `dev`: the import
\* of cbor2, os.open and the ioctl, the length check, cbor2.loads and the
\* inspection of the decoded response.
nsm_request(dev, user_data) ==
    IF ~dev.cbor2 THEN Raises("ImportError")
    ELSE IF ~dev.open_ok \/ ~dev.ioctl_ok THEN Raises("OSError")
    ELSE IF dev.actual_len = 0 THEN Returns(None)
    ELSE IF ~dev.decodable THEN Raises("CBORDecodeError")
    ELSE IF "Attestation" \in DOMAIN dev.response
            /\ "document" \in DOMAIN dev.response.Attestation
    THEN Returns(Some(dev.response.Attestation.document))
    ELSE IF "Error" \in DOMAIN dev.response THEN Returns(None)
    ELSE Returns(None)

\* Variant of get_nsm_attestation: only the ImportError clause is there.
get_nsm_attestation_import_only(dev, user_data) ==
    IF ~dev.exists THEN Returns(None)
    ELSE LET r == nsm_request(dev, user_data)
         IN  IF r.raised /\ r.cls = "ImportError" THEN Returns(None) ELSE r

\* get_nsm_attestation against the device `dev`: the existence check, the
\* try block and its two except clauses.
get_nsm_attestation(dev, user_data) ==
    IF ~dev.exists THEN Returns(None)
    ELSE LET r == nsm_request(dev, user_data)
         IN  IF r.raised /\ r.cls = "ImportError" THEN Returns(None)
             ELSE IF r.raised THEN Returns(None)
             ELSE r

\* How the call `call` ends for its caller: an exception is raised inside
\* the caller's try block, or get_nsm_attestation ends as the device makes it.
NsmReturn(call, user_data) ==
    IF call.raises THEN Raises("Exception")
    ELSE get_nsm_attestation(call.dev, user_data)

\* How a call of get_nsm_attestation inside a caller's try block ends: it
\* returns what the device `dev` makes it return, or an unexpected exception
\* is raised inside the try block.
NsmCalls ==
    {[raises |-> FALSE, dev |-> d] : d \in NsmDevices}
    \cup {[raises |-> TRUE]}

\* handle_attestation: bytes.fromhex(proof_hash_hex.lstrip("0x")) raises.
attestation_user_data_raises(request) ==
    LET proof_hash_hex == Get(request, "proofHash", <<>>)
    IN  proof_hash_hex # <<>> /\ ~fromhex_ok(lstrip0x(proof_hash_hex))

\* handle_attestation: the user_data handed to get_nsm_attestation.
attestation_user_data(request) ==
    LET proof_hash_hex == Get(request, "proofHash", <<>>)
    IN  IF proof_hash_hex # <<>> THEN fromhex(lstrip0x(proof_hash_hex))
        ELSE <<>>

\* Variant of handle_attestation: the except clause is missing the requestId.
handle_attestation_anonymous_error(request, call) ==
    LET request_id == Get(request, "requestId", "")
        ret == NsmReturn(call, attestation_user_data(request))
        nsm_doc == ret.value
    IN  IF attestation_user_data_raises(request) \/ ret.raised
        THEN ErrorResponse("", <<"unexpected exception">>)
        ELSE IF Truthy(nsm_doc)
        THEN [type |-> "attestation", requestId |-> request_id,
              attestationDocument |-> b64encode(nsm_doc.bytes)]
        ELSE ErrorResponse(request_id, <<"NSM device not available">>)

\* handle_attestation, its call of the attestation client ending as `call`.
handle_attestation(request, call) ==
    LET request_id == Get(request, "requestId", "")
        ret == NsmReturn(call, attestation_user_data(request))
        nsm_doc == ret.value
    IN  IF attestation_user_data_raises(request)
        THEN ErrorResponse(request_id,
                 <<"non-hexadecimal number found in fromhex() arg">>)
        ELSE IF ret.raised
        THEN ErrorResponse(request_id, <<"unexpected exception">>)
        ELSE IF Truthy(nsm_doc)
        THEN [type |-> "attestation", requestId |-> request_id,
              attestationDocument |-> b64encode(nsm_doc.bytes)]
        ELSE ErrorResponse(request_id, <<"NSM device not available">>)

----------------------------------------------------------------------------
(* State                                                                   *)

\* No workspace: the value of workdir outside the with-block.
NoDir == <<"", 0>>

\* A worker thread with no connection.
Idle ==
    [pc |-> "idle",
     raw |-> [kind |-> "empty"],   \* b"".join(chunks)
     request |-> <<>>,             \* the decoded request
     response |-> <<>>,            \* the response dispatch returned
     sent |-> <<>>,                \* the sendall calls made, with their outcome
     trace |-> <<>>,               \* what the worker did, in order
     exc |-> NoExc,                \* the exception being propagated
     workdir |-> NoDir,            \* generate_proof: the workspace
     witness_path |-> <<>>,        \* generate_proof: the witness file located
     proof_bytes |-> <<>>,         \* generate_proof: the proof file's bytes
     public_inputs |-> <<>>,       \* generate_proof: the publicInputs list
     result |-> <<>>,              \* generate_proof: the dict returned
     user_data |-> <<>>,           \* user_data of each attestation client call
     nsm_call |-> <<>>,            \* what each attestation client call met
     nsm_ret |-> <<>>]             \* how each attestation client call ended

\* The worker threads run_server has started.
Threads == {1}

\* The worker threads of a server that handles connections side by side.
ConcThreads == {1, 2}

\* Several workers are running.
Concurrent == DOMAIN conns # Threads

\* The outcomes the environment chooses from: all of them while one worker
\* is followed alone, those that bear on the interleaving of workers while
\* several run.
Env(all, few) == IF Concurrent THEN few ELSE all

\* The requests sent to concurrent workers: all with the same requestId, the
\* prove requests for the same circuit.
ConcBodies ==
    {[kind |-> k] : k \in {"bad_json", "not_object"}}
    \cup {[kind |-> "object", obj |-> r] :
             r \in {"type" :> "health",
                    ("type" :> "health") @@ ("requestId" :> "r1"),
                    ("type" :> "attestation") @@ ("requestId" :> "r1"),
                    ("type" :> "prove") @@ ("requestId" :> "r1")
                        @@ ("circuitId" :> "coinbase_attestation")
                        @@ ("proverToml" :> "amount = \"7\"\n")}}

\* The attestation device of concurrent workers: absent, or answering.
ConcNsmCalls ==
    {[raises |-> FALSE, dev |-> d] :
        d \in {[NsmAnswers([Error |-> "none"]) EXCEPT !.exists = FALSE],
               NsmAnswers([Attestation |-> [document |-> <<77>>]])}}

\* The bridge threads main has started.
BridgeThreads == {1}

\* A bridge worker with no connection.
Unlinked ==
    [pc |-> "idle",
     request |-> <<>>,    \* every byte the inbound peer writes
     tcp_in |-> <<>>,     \* the bytes of it tcp_conn.recv has yet to return
     data |-> <<>>,       \* data
     outbound |-> <<>>,   \* the outbound connections made, with what each
                          \* was sent and whether it was shut down for writing
     reply |-> <<>>,      \* every byte the outbound peer writes in response
     vs_in |-> <<>>,      \* the bytes of it vs.recv has yet to return
     resp |-> <<>>,       \* resp
     tcp_out |-> <<>>,    \* the bytes written to tcp_conn
     failed |-> FALSE,    \* an exception reached the except clause
     open |-> {}]         \* the sockets of the worker that are open

\* The connections that call get_nsm_attestation at the same time.
NsmCallers == {1, 2}

\* The user_data the callers hand to get_nsm_attestation.
NsmUserData == {<<>>, <<171>>, <<205>>}

\* No file descriptor.
NoFd == -1

\* The descriptor numbers os.open hands out: the lowest one that is free.
FdNumbers == {3, 4}

\* A call of get_nsm_attestation that has not been made.
NoCall ==
    [pc |-> "idle",
     dev |-> NsmAnswers([Error |-> "none"]),  \* how the device treats the call
     user_data |-> <<>>,      \* user_data
     req_buf |-> None,        \* req_buf: the request the call encoded
     resp_buf |-> <<>>,       \* resp_buf: what the device wrote into it
     msg |-> <<>>,            \* msg: the nsm_raw struct
     fd |-> NoFd,             \* fd
     raised |-> "none",       \* the exception on its way to an except clause
     steps |-> <<>>,          \* what the call did with the device, in order
     ret |-> None]            \* the value returned

\* The attestation device with no handle open and no call in progress.
NsmClosed == [fds |-> {}, calls |-> [c \in NsmCallers |-> NoCall]]

\* No request is being relayed: the bridge and the server both wait in
\* accept.  Times are in the unit of the socket timeouts.
Unrelayed ==
    [now |-> 0,             \* the time
     c_pc |-> "idle",       \* the client of the bridge
     c_next |-> 0,          \* when the client acts next
     c_left |-> 0,          \* the chunks it has yet to write
     request |-> <<>>,      \* the chunks it has written
     tcp_in |-> <<>>,       \* those tcp_conn.recv has yet to return
     tcp_eof |-> FALSE,     \* the client has shut down its writing side
     b_pc |-> "idle",       \* the bridge worker
     b_deadline |-> 0,      \* when its pending recv times out
     data |-> <<>>,         \* data
     resp |-> <<>>,         \* resp
     tcp_out |-> <<>>,      \* what it wrote to tcp_conn
     vs_fwd |-> <<>>,       \* forwarded chunks conn.recv has yet to return
     vs_shut |-> FALSE,     \* vs.shutdown(SHUT_WR) was called
     vs_back |-> <<>>,      \* response bytes vs.recv has yet to return
     s_pc |-> "listen",     \* the server and its worker
     s_accept_at |-> 0,     \* when accept returns the connection
     s_deadline |-> 0,      \* when its pending recv times out
     raw |-> <<>>,          \* the chunks it has read
     dispatched |-> FALSE,  \* dispatch(request) was called
     work |-> [kind |-> "none", nargo |-> 0, bb |-> 0],
     s_done_at |-> 0,       \* when dispatch returns
     s_sent |-> "none"]     \* how conn.sendall(response) went

Init ==
    /\ conns = [t \in Threads |-> Idle]
    /\ artifacts \in ArtifactStates
    /\ fs = {}
    /\ links = [b \in BridgeThreads |-> Unlinked]
    /\ nsm = NsmClosed
    /\ relay = Unrelayed

\* The workspace directory named `name`.
Dir(name) == CHOOSE d \in fs : d.name = name

Log(c, event) == Append(c.trace, event)

----------------------------------------------------------------------------
(* handle_connection, up to dispatch                                       *)

\* run_server: accept a connection and start its worker thread.
Accept(t) ==
    /\ conns[t].pc = "idle"
    /\ conns' = [conns EXCEPT ![t] = [Idle EXCEPT !.pc = "recv"]]
    /\ UNCHANGED <<artifacts, fs, links, nsm, relay>>

\* What the read loop leaves in the log: the half-close and the idle timeout
\* end it silently, any other exception is logged and swallowed.
recv_log(end) == IF end = "error" THEN <<"read_error">> ELSE <<>>

\* handle_connection: the read loop.  However it ends, the bytes read so far
\* become `raw`.
Recv(t) ==
    /\ conns[t].pc = "recv"
    /\ \E body \in Env(Bodies, ConcBodies), end \in Env(ReadEnds, {"eof"}) :
          conns' = [conns EXCEPT ![t] =
                       [@ EXCEPT !.pc = "parse", !.raw = body,
                                 !.trace = @ \o recv_log(end)]]
    /\ UNCHANGED <<artifacts, fs, links, nsm, relay>>

\* handle_connection: the empty-request check and json.loads(raw.decode()),
\* up to the log line before dispatch.
Parse(t) ==
    LET c == conns[t] IN
    /\ c.pc = "parse"
    /\ conns' = [conns EXCEPT ![t] =
          CASE c.raw.kind = "empty" ->
                 [c EXCEPT !.pc = "finally", !.trace = Log(c, "empty_request")]
            [] c.raw.kind = "non_utf8" ->
                 [c EXCEPT !.pc = "outer_except",
                           !.exc = Exc("UnicodeDecodeError",
                                       <<"'utf-8' codec can't decode byte">>)]
            [] c.raw.kind = "bad_json" ->
                 [c EXCEPT !.pc = "send_invalid_json"]
            [] c.raw.kind = "not_object" ->
                 [c EXCEPT !.pc = "outer_except",
                           !.exc = Exc("AttributeError",
                                       <<"object has no attribute 'get'">>)]
            [] c.raw.kind = "object" ->
                 [c EXCEPT !.pc = "dispatch", !.request = c.raw.obj]]
    /\ UNCHANGED <<artifacts, fs, links, nsm, relay>>

\* The JSONDecodeError branch: send the Invalid JSON error and return.
SendInvalidJson(t) ==
    LET c == conns[t]
        error_response == invalid_json_response
    IN
    /\ c.pc = "send_invalid_json"
    /\ \E wrote \in Env(SendOutcomes, {"full"}), cause \in SendFailures :
          conns' = [conns EXCEPT ![t] =
              [c EXCEPT !.sent = Append(@, [doc |-> error_response,
                                            wrote |-> wrote]),
                        !.trace = Log(c, "send"),
                        !.pc = IF wrote = "full" THEN "finally"
                               ELSE "outer_except",
                        !.exc = IF wrote = "full" THEN NoExc
                                ELSE Exc("OSError", <<cause>>)]]
    /\ UNCHANGED <<artifacts, fs, links, nsm, relay>>

\* dispatch, with handle_health and the early returns of handle_prove.
Dispatch(t) ==
    LET c == conns[t]
        request == c.request
        req_type == Get(request, "type", PyNone)
    IN
    /\ c.pc = "dispatch"
    /\ conns' = [conns EXCEPT ![t] =
          CASE req_type = "health" ->
                 [c EXCEPT !.pc = "send",
                           !.trace = c.trace \o <<"dispatch", "handle_health">>,
                           !.response = handle_health(request)]
            [] req_type = "prove" /\ handle_prove_reject(request) # <<>> ->
                 [c EXCEPT !.pc = "send",
                           !.trace = c.trace \o <<"dispatch", "handle_prove">>,
                           !.response = handle_prove_reject(request)]
            [] req_type = "prove" /\ handle_prove_reject(request) = <<>> ->
                 [c EXCEPT !.pc = "generate_proof",
                           !.trace = c.trace \o <<"dispatch", "handle_prove">>]
            [] req_type = "attestation" ->
                 [c EXCEPT !.pc = "handle_attestation",
                           !.trace = c.trace
                               \o <<"dispatch", "handle_attestation">>]
            [] OTHER ->
                 [c EXCEPT !.pc = "send", !.trace = Log(c, "dispatch"),
                           !.response = dispatch_unknown(request)]]
    /\ UNCHANGED <<artifacts, fs, links, nsm, relay>>

\* handle_attestation: decode proofHash, call the attestation client once.
HandleAttestation(t) ==
    LET c == conns[t] IN
    /\ c.pc = "handle_attestation"
    /\ \E call \in Env(NsmCalls, ConcNsmCalls) :
          conns' = [conns EXCEPT ![t] =
              IF attestation_user_data_raises(c.request)
              THEN [c EXCEPT !.pc = "send",
                             !.response = handle_attestation(c.request, call)]
              ELSE [c EXCEPT !.pc = "send",
                             !.response = handle_attestation(c.request, call),
                             !.trace = Log(c, "nsm"),
                             !.user_data =
                                 Append(@, attestation_user_data(c.request)),
                             !.nsm_call = Append(@, call),
                             !.nsm_ret =
                                 Append(@, NsmReturn(call,
                                        attestation_user_data(c.request)))]]
    /\ UNCHANGED <<artifacts, fs, links, nsm, relay>>

----------------------------------------------------------------------------
(* generate_proof                                                          *)

ExitCodes == {0, 1}

\* The witness file names generate_proof looks for under target/.
NamedWitness(circuit_id) == <<circuit_id, ".gz">>

AltWitness == <<"witness", ".gz">>

\* What bb prove can leave at <workdir>/proof: nothing, a file, or a
\* directory holding any of the files proof and public_inputs.
BbOutputs ==
    {[kind |-> "none", files |-> <<>>]}
    \cup {[kind |-> "file", files |-> "proof" :> b] : b \in ProofBytes}
    \cup {[kind |-> "dir", files |-> f] :
             f \in {<<>>}
                \cup {"proof" :> b : b \in ProofBytes}
                \cup {"public_inputs" :> p : p \in PublicInputsBytes}
                \cup {("proof" :> b) @@ ("public_inputs" :> p) :
                         b \in ProofBytes, p \in PublicInputsBytes}}

\* Variant of subprocess_run: no timeout is passed.
subprocess_run_unbounded(dur) == "exit"

\* subprocess.run(..., timeout=PROVE_TIMEOUT_SECONDS) of a tool that runs for
\* `dur`: it raises TimeoutExpired or returns the exit code.
subprocess_run(dur) ==
    IF dur > PROVE_TIMEOUT_SECONDS THEN "timeout" ELSE "exit"

\* Variant of missing_artifact: the verification key is not checked.
missing_artifact_bytecode_only(paths) ==
    IF paths.bytecode \notin artifacts THEN <<"bytecode", paths.bytecode>>
    ELSE <<>>

\* The first artifact of `paths` that is not on disk: <<label, path>>, or <<>>.
missing_artifact(paths) ==
    IF paths.bytecode \notin artifacts THEN <<"bytecode", paths.bytecode>>
    ELSE IF paths.vk \notin artifacts THEN <<"vk", paths.vk>>
    ELSE <<>>

\* Variant of mkdtemp: a name is taken whether or not it exists.
mkdtemp_unchecked(dirs, request_id) ==
    {<<request_id, suffix>> : suffix \in 1..MaxSuffix}

\* tempfile.TemporaryDirectory(prefix=f"proof-{request_id}-", dir=...): the
\* names it can create, prefix and random suffix, none of which exists.
mkdtemp(dirs, request_id) ==
    {<<request_id, suffix>> : suffix \in 1..MaxSuffix}
    \ {d.name : d \in dirs}

\* generate_proof up to the with statement: resolve the circuit, check its
\* artifacts, create the workspace with tempfile.TemporaryDirectory.
ResolveCircuit(t) ==
    LET c == conns[t]
        circuit_id == Get(c.request, "circuitId", PyNone)
        request_id == Get(c.request, "requestId", "")
        paths == get_circuit_paths(circuit_id)
        missing == missing_artifact(paths)
        Raise(e) == /\ conns' = [conns EXCEPT ![t] =
                          [c EXCEPT !.pc = "handle_prove_return", !.exc = e]]
                    /\ UNCHANGED <<artifacts, fs, links, nsm, relay>>
    IN
    /\ c.pc = "generate_proof"
    /\ IF get_circuit_paths_raises(circuit_id)
       THEN Raise(get_circuit_paths_error(circuit_id))
       ELSE IF missing # <<>>
       THEN Raise(Exc("RuntimeError",
                      <<"Circuit artifact missing: ", missing[1], " at ">>
                      \o missing[2]))
       ELSE \/ Raise(Exc("OSError", <<"No space left on device">>))
            \/ \E workdir \in mkdtemp(fs, request_id) :
                  /\ fs' = fs \cup {[name |-> workdir, owner |-> t,
                                     prover_toml |-> <<>>, copied |-> FALSE,
                                     witness |-> {},
                                     output |-> [kind |-> "none",
                                                 files |-> <<>>]]}
                  /\ conns' = [conns EXCEPT ![t] =
                        [c EXCEPT !.pc = "stage", !.workdir = workdir,
                                  !.trace = Log(c, "mkdtemp")]]
                  /\ UNCHANGED <<artifacts, links, nsm, relay>>

\* Steps 1 and 2: write Prover.toml, copy the circuit package.
StageWorkspace(t) ==
    LET c == conns[t]
        d == Dir(c.workdir)
        prover_toml == Get(c.request, "proverToml", PyNone)
        inputs == Get(c.request, "inputs", NoInputs)
        text == IF prover_toml \notin {PyNone, ""} THEN <<prover_toml>>
                ELSE write_prover_toml(inputs.items)
    IN
    /\ c.pc = "stage"
    /\ \/ /\ fs' = (fs \ {d}) \cup {[d EXCEPT !.prover_toml = text,
                                              !.copied = TRUE]}
          /\ conns' = [conns EXCEPT ![t] =
                [c EXCEPT !.pc = "nargo",
                          !.trace = c.trace \o <<"write_toml", "copy">>]]
       \/ /\ fs' = fs
          /\ conns' = [conns EXCEPT ![t] =
                [c EXCEPT !.pc = "leave_with",
                          !.exc = Exc("OSError",
                                      <<"No space left on device">>)]]
    /\ UNCHANGED <<artifacts, links, nsm, relay>>

\* Variant of locate_witness: witness.gz is looked for first.
locate_witness_alt_first(witness, named) ==
    IF AltWitness \in witness THEN AltWitness
    ELSE IF named \in witness THEN named
    ELSE <<>>

\* The witness file generate_proof settles on among the files `witness`
\* under target/: <circuit_name>.gz, else witness.gz, else none (<<>>).
locate_witness(witness, named) ==
    IF named \in witness THEN named
    ELSE IF AltWitness \in witness THEN AltWitness
    ELSE <<>>

\* What a tool run did: it could not be started, it ran past the timeout, or
\* it exited with rc.
RunFact(started, dur, rc) ==
    IF ~started THEN "not_started"
    ELSE IF dur > PROVE_TIMEOUT_SECONDS THEN "overran"
    ELSE IF rc = 0 THEN "exit0" ELSE "exit_nonzero"

NargoEvent ==
    [not_started |-> "nargo_not_started", overran |-> "nargo_overran",
     exit0 |-> "nargo_exit0", exit_nonzero |-> "nargo_exit_nonzero"]

BbEvent ==
    [not_started |-> "bb_not_started", overran |-> "bb_overran",
     exit0 |-> "bb_exit0", exit_nonzero |-> "bb_exit_nonzero"]

\* Step 3: run nargo execute, check its exit code, locate the witness.
RunNargo(t) ==
    LET c == conns[t]
        d == Dir(c.workdir)
        circuit_id == Get(c.request, "circuitId", PyNone)
        named == NamedWitness(circuit_id)
    IN
    /\ c.pc = "nargo"
    /\ \E started \in Env(BOOLEAN, {TRUE}), dur \in Env(ToolDurations, {1}),
          rc \in ExitCodes,
          files \in Env(SUBSET {named, AltWitness}, {{named}}) :
          LET ran == IF started THEN subprocess_run(dur) ELSE "oserror"
              witness == IF started THEN files ELSE {}
              located == locate_witness(witness, named)
              invoked == Log(c, NargoEvent[RunFact(started, dur, rc)])
              looked == Append(invoked, IF witness = {} THEN "witness_absent"
                                        ELSE "witness_present")
          IN
          /\ fs' = (fs \ {d}) \cup {[d EXCEPT !.witness = witness]}
          /\ conns' = [conns EXCEPT ![t] =
                CASE ran = "oserror" ->
                       [c EXCEPT !.pc = "leave_with", !.trace = invoked,
                                 !.exc = Exc("OSError",
                                             <<"No such file: 'nargo'">>)]
                  [] ran = "timeout" ->
                       [c EXCEPT !.pc = "leave_with", !.trace = invoked,
                                 !.exc = Exc("TimeoutExpired",
                                             <<"nargo timed out">>)]
                  [] ran = "exit" /\ rc # 0 ->
                       [c EXCEPT !.pc = "leave_with", !.trace = invoked,
                                 !.exc = Exc("RuntimeError",
                                             <<"nargo execute failed (exit ">>
                                             \o Dec(rc) \o <<"): ", "stderr">>)]
                  [] ran = "exit" /\ rc = 0 /\ located # <<>> ->
                       [c EXCEPT !.pc = "bb", !.trace = looked,
                                 !.witness_path = located]
                  [] OTHER ->
                       [c EXCEPT !.pc = "leave_with", !.trace = looked,
                                 !.exc = Exc("RuntimeError",
                                     <<"Witness file not found after nargo execute. ",
                                       "Expected: ">> \o named)]]
    /\ UNCHANGED <<artifacts, links, nsm, relay>>

\* Variant of proof_file: the existence check is missing and a missing proof
\* file reads as empty.
proof_file_unchecked(output) ==
    IF output.kind # "none" /\ "proof" \in DOMAIN output.files
    THEN <<output.files.proof>>
    ELSE <<<<>>>>

\* Step 5: the proof file generate_proof reads, <<>> when it does not exist.
proof_file(output) ==
    IF output.kind = "none" THEN <<>>
    ELSE IF "proof" \in DOMAIN output.files THEN <<output.files.proof>>
    ELSE <<>>

\* Step 6: the publicInputs list read from <proof_output>/public_inputs.
read_public_inputs(output) ==
    IF output.kind = "dir" /\ "public_inputs" \in DOMAIN output.files
    THEN <<Hex0x(output.files.public_inputs)>>
    ELSE <<>>

\* Steps 4 to 6: run bb prove, check its exit code, read its output.
RunBb(t) ==
    LET c == conns[t]
        d == Dir(c.workdir)
    IN
    /\ c.pc = "bb"
    /\ \E started \in Env(BOOLEAN, {TRUE}), dur \in Env(ToolDurations, {1}),
          rc \in ExitCodes,
          out \in Env(BbOutputs,
                      {[kind |-> "dir",
                        files |-> ("proof" :> <<10>>)
                                  @@ ("public_inputs" :> <<0, 1>>)]}) :
          LET ran == IF started THEN subprocess_run(dur) ELSE "oserror"
              output == IF started THEN out ELSE d.output
              invoked == Log(c, BbEvent[RunFact(started, dur, rc)])
              looked == Append(invoked,
                               IF output.kind # "none"
                                  /\ "proof" \in DOMAIN output.files
                               THEN "proof_present" ELSE "proof_absent")
          IN
          /\ fs' = (fs \ {d}) \cup {[d EXCEPT !.output = output]}
          /\ conns' = [conns EXCEPT ![t] =
                CASE ran = "oserror" ->
                       [c EXCEPT !.pc = "leave_with", !.trace = invoked,
                                 !.exc = Exc("OSError", <<"No such file: 'bb'">>)]
                  [] ran = "timeout" ->
                       [c EXCEPT !.pc = "leave_with", !.trace = invoked,
                                 !.exc = Exc("TimeoutExpired", <<"bb timed out">>)]
                  [] ran = "exit" /\ rc # 0 ->
                       [c EXCEPT !.pc = "leave_with", !.trace = invoked,
                                 !.exc = Exc("RuntimeError",
                                             <<"bb prove failed (exit ">>
                                             \o Dec(rc) \o <<"): ", "stderr">>)]
                  [] ran = "exit" /\ rc = 0 /\ proof_file(output) = <<>> ->
                       [c EXCEPT !.pc = "leave_with", !.trace = looked,
                                 !.exc = Exc("RuntimeError",
                                     <<"bb prove did not produce output at ",
                                       "proof">>)]
                  [] OTHER ->
                       [c EXCEPT !.pc = "attest", !.trace = looked,
                                 !.proof_bytes = proof_file(output)[1],
                                 !.public_inputs = read_public_inputs(output)]]
    /\ UNCHANGED <<artifacts, links, nsm, relay>>

\* Step 7 as generate_proof wraps it: the attestation document in base64,
\* <<>> (None) when the client returns none or anything raises.
attestation_b64(call, proof_bytes) ==
    LET ret == NsmReturn(call, sha256(proof_bytes))
        nsm_doc == ret.value
    IN  IF ret.raised THEN <<>>
        ELSE IF Truthy(nsm_doc) THEN b64encode(nsm_doc.bytes) ELSE <<>>

\* Variant of proof_result: attestationDocument is always set.
proof_result_always_attested(proof_bytes, public_inputs, att_b64) ==
    [proof |-> Hex0x(proof_bytes), publicInputs |-> public_inputs,
     attestationDocument |-> att_b64]

\* The dict generate_proof returns.
proof_result(proof_bytes, public_inputs, att_b64) ==
    [proof |-> Hex0x(proof_bytes), publicInputs |-> public_inputs]
    @@ (IF att_b64 # <<>> THEN "attestationDocument" :> att_b64 ELSE <<>>)

\* Step 7 and the return statement.
Attest(t) ==
    LET c == conns[t] IN
    /\ c.pc = "attest"
    /\ \E call \in Env(NsmCalls, ConcNsmCalls) :
          conns' = [conns EXCEPT ![t] =
              [c EXCEPT !.pc = "leave_with",
                        !.trace = Log(c, "nsm"),
                        !.user_data = Append(@, sha256(c.proof_bytes)),
                        !.nsm_call = Append(@, call),
                        !.nsm_ret = Append(@, NsmReturn(call,
                                                        sha256(c.proof_bytes))),
                        !.result = proof_result(c.proof_bytes, c.public_inputs,
                                       attestation_b64(call, c.proof_bytes))]]
    /\ UNCHANGED <<artifacts, fs, links, nsm, relay>>

\* Variant of cleanup: the workspace is left on disk.
cleanup_leaks(dirs, name) == dirs

\* TemporaryDirectory.__exit__: what is left of `dirs` once the workspace
\* `name` is removed.
cleanup(dirs, name) == {d \in dirs : d.name # name}

\* Leaving the with block, by return or by exception: the workspace is
\* removed and the locals of generate_proof are gone.
LeaveWith(t) ==
    LET c == conns[t] IN
    /\ c.pc = "leave_with"
    /\ fs' = cleanup(fs, c.workdir)
    /\ conns' = [conns EXCEPT ![t] =
          [c EXCEPT !.pc = "handle_prove_return",
                    !.trace = Log(c, "rmtree"),
                    !.workdir = NoDir, !.witness_path = <<>>,
                    !.proof_bytes = <<>>, !.public_inputs = <<>>]]
    /\ UNCHANGED <<artifacts, links, nsm, relay>>

\* handle_prove: the Proof response, or the except clause that matches.
HandleProveReturn(t) ==
    LET c == conns[t]
        request_id == Get(c.request, "requestId", "")
    IN
    /\ c.pc = "handle_prove_return"
    /\ conns' = [conns EXCEPT ![t] =
          [c EXCEPT !.pc = "send", !.exc = NoExc,
                    !.response =
                        IF c.exc # NoExc
                        THEN handle_prove_except(request_id, c.exc)
                        ELSE handle_prove_response(request_id, c.result)]]
    /\ UNCHANGED <<artifacts, fs, links, nsm, relay>>

----------------------------------------------------------------------------
(* handle_connection, after dispatch                                       *)

\* conn.sendall(json.dumps(response)) after dispatch returned.
Send(t) ==
    LET c == conns[t] IN
    /\ c.pc = "send"
    /\ \E wrote \in Env(SendOutcomes, {"full"}), cause \in SendFailures :
          conns' = [conns EXCEPT ![t] =
              [c EXCEPT !.sent = Append(@, [doc |-> c.response,
                                            wrote |-> wrote]),
                        !.trace = Log(c, "send"),
                        !.pc = IF wrote = "full" THEN "finally"
                               ELSE "outer_except",
                        !.exc = IF wrote = "full" THEN NoExc
                                ELSE Exc("OSError", <<cause>>)]]
    /\ UNCHANGED <<artifacts, fs, links, nsm, relay>>

\* The outer except clause: try to send a Server error response; a failure
\* of that send is swallowed.
OuterExcept(t) ==
    LET c == conns[t]
        error_response == server_error_response(c.exc)
    IN
    /\ c.pc = "outer_except"
    /\ \E wrote \in IF c.exc = Exc("OSError", <<"Broken pipe">>)
                     THEN {"none"} ELSE Env(SendOutcomes, {"full"}) :
          conns' = [conns EXCEPT ![t] =
              [c EXCEPT !.sent = Append(@, [doc |-> error_response,
                                            wrote |-> wrote]),
                        !.trace = Log(c, "send"),
                        !.pc = "finally", !.exc = NoExc]]
    /\ UNCHANGED <<artifacts, fs, links, nsm, relay>>

\* Variant of Finally: the handler returns without closing the connection.
Finally_without_close(t) ==
    /\ conns[t].pc = "finally"
    /\ conns' = [conns EXCEPT ![t] = Idle]
    /\ UNCHANGED <<artifacts, fs, links, nsm, relay>>

\* The finally clause: close the connection.
Finally(t) ==
    LET c == conns[t] IN
    /\ c.pc = "finally"
    /\ conns' = [conns EXCEPT ![t] =
          [c EXCEPT !.pc = "closed", !.trace = Log(c, "close")]]
    /\ UNCHANGED <<artifacts, fs, links, nsm, relay>>

\* handle_connection returns and its thread ends; nothing of the request
\* is kept.
ThreadExit(t) ==
    /\ conns[t].pc = "closed"
    /\ conns' = [conns EXCEPT ![t] = Idle]
    /\ UNCHANGED <<artifacts, fs, links, nsm, relay>>

----------------------------------------------------------------------------

Next ==
    \E t \in Threads :
        \/ Accept(t)
        \/ Recv(t)
        \/ Parse(t)
        \/ SendInvalidJson(t)
        \/ Dispatch(t)
        \/ HandleAttestation(t)
        \/ ResolveCircuit(t)
        \/ StageWorkspace(t)
        \/ RunNargo(t)
        \/ RunBb(t)
        \/ Attest(t)
        \/ LeaveWith(t)
        \/ HandleProveReturn(t)
        \/ Send(t)
        \/ OuterExcept(t)
        \/ Finally(t)
        \/ ThreadExit(t)

Spec == Init /\ [][Next]_vars

\* A step of the thread that handles a connection, from the read loop to
\* the end of the thread.
Handle(t) ==
    \/ Recv(t)
    \/ Parse(t)
    \/ SendInvalidJson(t)
    \/ Dispatch(t)
    \/ HandleAttestation(t)
    \/ ResolveCircuit(t)
    \/ StageWorkspace(t)
    \/ RunNargo(t)
    \/ RunBb(t)
    \/ Attest(t)
    \/ LeaveWith(t)
    \/ HandleProveReturn(t)
    \/ Send(t)
    \/ OuterExcept(t)
    \/ Finally(t)
    \/ ThreadExit(t)

\* The server with threads that keep running: every recv returns or times
\* out, every tool run ends or is timed out, every device call returns, and
\* the scheduler does not starve a thread.  Peers connect when they like.
SpecLive == Init /\ [][Next]_vars /\ \A t \in Threads : WF_vars(Handle(t))

\* Two connections handled side by side, each by its own thread.
InitConc ==
    /\ conns = [t \in ConcThreads |-> Idle]
    /\ artifacts \in ArtifactStates
    /\ fs = {}
    /\ links = [b \in BridgeThreads |-> Unlinked]
    /\ nsm = NsmClosed
    /\ relay = Unrelayed

NextConc ==
    \E t \in ConcThreads :
        \/ Accept(t)
        \/ Recv(t)
        \/ Parse(t)
        \/ SendInvalidJson(t)
        \/ Dispatch(t)
        \/ HandleAttestation(t)
        \/ ResolveCircuit(t)
        \/ StageWorkspace(t)
        \/ RunNargo(t)
        \/ RunBb(t)
        \/ Attest(t)
        \/ LeaveWith(t)
        \/ HandleProveReturn(t)
        \/ Send(t)
        \/ OuterExcept(t)
        \/ Finally(t)
        \/ ThreadExit(t)

SpecConc == InitConc /\ [][NextConc]_vars

----------------------------------------------------------------------------
(* vsock-bridge.py: bridge                                                 *)

\* The byte values peers of the bridge write: NUL, a byte that is not valid
\* UTF-8, and a line feed.
BridgeBytes == {0, 10, 255}

\* The byte sequences a peer writes before it is done sending.
Payloads == UNION {[1..k -> BridgeBytes] : k \in 0..MaxPayload}

\* What is left of a stream after its first k bytes.
Rest(stream, k) == SubSeq(stream, k + 1, Len(stream))

\* Variant of accumulate: the chunk replaces what was read before.
accumulate_overwrite(data, chunk) == chunk

\* data += chunk
accumulate(data, chunk) == data \o chunk

\* The outbound connection `vs` after `bytes` were written to it.
vs_written(vs, bytes) == [vs EXCEPT !.received = @ \o bytes]

\* main: a connection is accepted and handed to a new thread; the inbound
\* peer writes `payload` and then half-closes or goes idle.
BridgeAccept(b) ==
    /\ links[b].pc = "idle"
    /\ \E payload \in Payloads :
          links' = [links EXCEPT ![b] =
              [Unlinked EXCEPT !.pc = "connect", !.request = payload,
                               !.tcp_in = payload, !.open = {"tcp_conn"}]]
    /\ UNCHANGED <<conns, artifacts, fs, nsm, relay>>

\* socket.socket, settimeout(30) and connect: the outbound connection is
\* made, or connect raises.
BridgeConnect(b) ==
    LET l == links[b] IN
    /\ l.pc = "connect"
    /\ \E connected \in BOOLEAN :
          links' = [links EXCEPT ![b] =
              IF connected
              THEN [l EXCEPT !.pc = "recv_tcp",
                             !.open = @ \cup {"vs"},
                             !.outbound = Append(@, [received |-> <<>>,
                                                     shut |-> FALSE])]
              ELSE [l EXCEPT !.pc = "except", !.open = @ \cup {"vs"}]]
    /\ UNCHANGED <<conns, artifacts, fs, nsm, relay>>

\* One tcp_conn.recv of the first loop: it returns some of the bytes in
\* flight, or, once the peer has written everything, b"" on its half-close or
\* socket.timeout on its silence (both break), or it raises another error.
BridgeRecvTcp(b) ==
    LET l == links[b] IN
    /\ l.pc = "recv_tcp"
    /\ \/ \E k \in 1..Len(l.tcp_in) :
              links' = [links EXCEPT ![b] =
                  [l EXCEPT !.data = accumulate(@, SubSeq(l.tcp_in, 1, k)),
                            !.tcp_in = Rest(@, k)]]
       \/ /\ l.tcp_in = <<>>
          /\ links' = [links EXCEPT ![b] = [l EXCEPT !.pc = "forward"]]
       \/ links' = [links EXCEPT ![b] = [l EXCEPT !.pc = "except"]]
    /\ UNCHANGED <<conns, artifacts, fs, nsm, relay>>

\* vs.sendall(data) and vs.shutdown(SHUT_WR): sendall raises after writing
\* less than all of data, or shutdown raises, or both succeed and the outbound
\* peer writes `reply` and then closes or goes idle.
BridgeForward(b) ==
    LET l == links[b] IN
    /\ l.pc = "forward"
    /\ \/ \E k \in 0..(Len(l.data) - 1) :
              links' = [links EXCEPT ![b] =
                  [l EXCEPT !.pc = "except",
                            !.outbound[1] =
                                vs_written(@, SubSeq(l.data, 1, k))]]
       \/ links' = [links EXCEPT ![b] =
              [l EXCEPT !.pc = "except",
                        !.outbound[1] = vs_written(@, l.data)]]
       \/ \E reply \in Payloads :
              links' = [links EXCEPT ![b] =
                  [l EXCEPT !.pc = "recv_vs",
                            !.outbound[1] =
                                [vs_written(@, l.data) EXCEPT !.shut = TRUE],
                            !.reply = reply, !.vs_in = reply]]
    /\ UNCHANGED <<conns, artifacts, fs, nsm, relay>>

\* One vs.recv of the second loop, as the first loop.
BridgeRecvVs(b) ==
    LET l == links[b] IN
    /\ l.pc = "recv_vs"
    /\ \/ \E k \in 1..Len(l.vs_in) :
              links' = [links EXCEPT ![b] =
                  [l EXCEPT !.resp = accumulate(@, SubSeq(l.vs_in, 1, k)),
                            !.vs_in = Rest(@, k)]]
       \/ /\ l.vs_in = <<>>
          /\ links' = [links EXCEPT ![b] = [l EXCEPT !.pc = "reply"]]
       \/ links' = [links EXCEPT ![b] = [l EXCEPT !.pc = "except"]]
    /\ UNCHANGED <<conns, artifacts, fs, nsm, relay>>

\* tcp_conn.sendall(resp): everything is written, or it raises after writing
\* less.
BridgeReply(b) ==
    LET l == links[b] IN
    /\ l.pc = "reply"
    /\ \/ links' = [links EXCEPT ![b] =
              [l EXCEPT !.pc = "finally", !.tcp_out = @ \o l.resp]]
       \/ \E k \in 0..(Len(l.resp) - 1) :
              links' = [links EXCEPT ![b] =
                  [l EXCEPT !.pc = "except",
                            !.tcp_out = @ \o SubSeq(l.resp, 1, k)]]
    /\ UNCHANGED <<conns, artifacts, fs, nsm, relay>>

\* except Exception: the error is printed.
BridgeExcept(b) ==
    LET l == links[b] IN
    /\ l.pc = "except"
    /\ links' = [links EXCEPT ![b] =
          [l EXCEPT !.pc = "finally", !.failed = TRUE]]
    /\ UNCHANGED <<conns, artifacts, fs, nsm, relay>>

\* finally: vs and tcp_conn are closed.
BridgeFinally(b) ==
    LET l == links[b] IN
    /\ l.pc = "finally"
    /\ links' = [links EXCEPT ![b] = [l EXCEPT !.pc = "closed", !.open = {}]]
    /\ UNCHANGED <<conns, artifacts, fs, nsm, relay>>

\* bridge returns and its thread ends.
BridgeExit(b) ==
    /\ links[b].pc = "closed"
    /\ links' = [links EXCEPT ![b] = Unlinked]
    /\ UNCHANGED <<conns, artifacts, fs, nsm, relay>>

InitBridge ==
    /\ conns = [t \in Threads |-> Idle]
    /\ artifacts = AllArtifacts
    /\ fs = {}
    /\ links = [b \in BridgeThreads |-> Unlinked]
    /\ nsm = NsmClosed
    /\ relay = Unrelayed

NextBridge ==
    \E b \in BridgeThreads :
        \/ BridgeAccept(b)
        \/ BridgeConnect(b)
        \/ BridgeRecvTcp(b)
        \/ BridgeForward(b)
        \/ BridgeRecvVs(b)
        \/ BridgeReply(b)
        \/ BridgeExcept(b)
        \/ BridgeFinally(b)
        \/ BridgeExit(b)

SpecBridge == InitBridge /\ [][NextBridge]_vars

----------------------------------------------------------------------------
(* get_nsm_attestation, statement by statement, called concurrently        *)

\* request_payload: user_data and nonce become None when empty.
request_payload(user_data) ==
    [Attestation |-> [user_data |-> IF user_data # <<>> THEN Some(user_data)
                                    ELSE None,
                      nonce |-> None,
                      public_key |-> None]]

\* struct.pack("QIIQII", addressof(req_buf), len, 0, addressof(resp_buf),
\* NSM_RESPONSE_BUF_SIZE, 0): the buffers are those of the call `c`.
nsm_raw(c) ==
    [request |-> c, response |-> c, response_len |-> "NSM_RESPONSE_BUF_SIZE"]

\* The call c leaves its try block through an except clause, or returns v.
NsmLeave(c, k, v) ==
    nsm' = [nsm EXCEPT !.calls[c] = [k EXCEPT !.pc = "return", !.ret = v,
                                               !.raised = "none"]]

\* A connection calls get_nsm_attestation(user_data).
NsmEnter(c) ==
    /\ nsm.calls[c].pc = "idle"
    /\ \E dev \in NsmDevices, user_data \in NsmUserData :
           nsm' = [nsm EXCEPT !.calls[c] =
                      [NoCall EXCEPT !.pc = "exists", !.dev = dev,
                                     !.user_data = user_data]]
    /\ UNCHANGED <<conns, artifacts, fs, links, relay>>

\* `if not os.path.exists(NSM_DEVICE): return None`
NsmExists(c) ==
    LET k == nsm.calls[c]
    IN  /\ k.pc = "exists"
        /\ IF k.dev.exists
           THEN nsm' = [nsm EXCEPT !.calls[c].pc = "build"]
           ELSE NsmLeave(c, k, None)
        /\ UNCHANGED <<conns, artifacts, fs, links, relay>>

\* The imports, the request, the two buffers and the nsm_raw struct; a
\* missing cbor2 is caught by the ImportError clause.
NsmBuild(c) ==
    LET k == nsm.calls[c]
    IN  /\ k.pc = "build"
        /\ IF k.dev.cbor2
           THEN nsm' = [nsm EXCEPT !.calls[c] =
                           [k EXCEPT !.pc = "open",
                                     !.req_buf = request_payload(k.user_data),
                                     !.resp_buf = <<>>,
                                     !.msg = nsm_raw(c)]]
           ELSE NsmLeave(c, k, None)
        /\ UNCHANGED <<conns, artifacts, fs, links, relay>>

\* fd = os.open(NSM_DEVICE, os.O_RDWR): the lowest free descriptor, or an
\* OSError that the `except Exception` clause turns into None.
NsmOpen(c) ==
    LET k == nsm.calls[c]
        fd == CHOOSE n \in FdNumbers \ nsm.fds :
                  \A m \in FdNumbers \ nsm.fds : n <= m
    IN  /\ k.pc = "open"
        /\ IF k.dev.open_ok
           THEN nsm' = [nsm EXCEPT !.fds = @ \cup {fd},
                                   !.calls[c] =
                                       [k EXCEPT !.pc = "ioctl", !.fd = fd,
                                                 !.steps = <<"open">>]]
           ELSE NsmLeave(c, k, None)
        /\ UNCHANGED <<conns, artifacts, fs, links, relay>>

\* fcntl.ioctl(fd, NSM_IOCTL_CMD, msg): the device reads the request at
\* msg.request, writes its answer at msg.response and the length into msg,
\* or the ioctl raises.
NsmIoctl(c) ==
    LET k == nsm.calls[c]
        answer == [response |-> k.dev.response,
                   request |-> nsm.calls[k.msg.request].req_buf]
    IN  /\ k.pc = "ioctl"
        /\ k.fd \in nsm.fds
        /\ IF k.dev.ioctl_ok
           THEN nsm' = [nsm EXCEPT
                           !.calls[k.msg.response].resp_buf = <<answer>>,
                           !.calls[c].msg.response_len = k.dev.actual_len,
                           !.calls[c].steps = Append(@, "ioctl"),
                           !.calls[c].pc = "close"]
           ELSE nsm' = [nsm EXCEPT
                           !.calls[c].raised = "OSError",
                           !.calls[c].steps = Append(@, "ioctl_raised"),
                           !.calls[c].pc = "close"]
        /\ UNCHANGED <<conns, artifacts, fs, links, relay>>

\* Variant of NsmClose: os.close(fd) follows the ioctl without try/finally.
NsmClose_unless_raised(c) ==
    LET k == nsm.calls[c]
    IN  /\ k.pc = "close"
        /\ IF k.raised # "none"
           THEN NsmLeave(c, k, None)
           ELSE nsm' = [nsm EXCEPT !.fds = @ \ {k.fd},
                                   !.calls[c].fd = NoFd,
                                   !.calls[c].steps = Append(@, "close"),
                                   !.calls[c].pc = "decode"]
        /\ UNCHANGED <<conns, artifacts, fs, links, relay>>

\* `finally: os.close(fd)`, then the exception of the ioctl, if any, goes on
\* to the `except Exception` clause.
NsmClose(c) ==
    LET k == nsm.calls[c]
        closed == [k EXCEPT !.fd = NoFd, !.steps = Append(@, "close")]
    IN  /\ k.pc = "close"
        /\ nsm' = [nsm EXCEPT !.fds = @ \ {k.fd},
                              !.calls[c] =
                                  IF k.raised # "none"
                                  THEN [closed EXCEPT !.pc = "return",
                                                      !.ret = None,
                                                      !.raised = "none"]
                                  ELSE [closed EXCEPT !.pc = "decode"]]
        /\ UNCHANGED <<conns, artifacts, fs, links, relay>>

\* actual_len, resp_buf.raw[:actual_len], cbor2.loads and the inspection of
\* the response; cbor2.loads raising is caught by `except Exception`.
NsmDecode(c) ==
    LET k == nsm.calls[c]
        response == k.resp_buf[1].response
    IN  /\ k.pc = "decode"
        /\ NsmLeave(c, k,
               IF k.msg.response_len = 0 THEN None
               ELSE IF k.resp_buf = <<>> \/ ~k.dev.decodable THEN None
               ELSE IF "Attestation" \in DOMAIN response
                       /\ "document" \in DOMAIN response.Attestation
               THEN Some(response.Attestation.document)
               ELSE None)
        /\ UNCHANGED <<conns, artifacts, fs, links, relay>>

\* The call has returned; its locals are gone.
NsmReturned(c) ==
    /\ nsm.calls[c].pc = "return"
    /\ nsm' = [nsm EXCEPT !.calls[c] = NoCall]
    /\ UNCHANGED <<conns, artifacts, fs, links, relay>>

InitNsm ==
    /\ conns = [t \in Threads |-> Idle]
    /\ artifacts = AllArtifacts
    /\ fs = {}
    /\ links = [b \in BridgeThreads |-> Unlinked]
    /\ nsm = NsmClosed
    /\ relay = Unrelayed

NextNsm ==
    \E c \in NsmCallers :
        \/ NsmEnter(c)
        \/ NsmExists(c)
        \/ NsmBuild(c)
        \/ NsmOpen(c)
        \/ NsmIoctl(c)
        \/ NsmClose(c)
        \/ NsmDecode(c)
        \/ NsmReturned(c)

SpecNsm == InitNsm /\ [][NextNsm]_vars

----------------------------------------------------------------------------
(* The bridge and the server composed, with time                           *)

\* tcp_conn.settimeout(5)
tcp_conn_timeout == 5

\* vs.settimeout(30)
vs_timeout == 30

\* conn.settimeout(5.0)
conn_timeout == 5

\* The most chunks a client writes its request in.
MaxChunks == 2

\* How long a client waits before it writes a chunk or shuts down its writing
\* side: not at all, less than the bridge's idle timeout, or longer.
ClientGaps == {0, tcp_conn_timeout - 1, tcp_conn_timeout + 1}

\* How long after the bridge's connect the server's accept returns and the
\* worker thread reaches its first recv.
AcceptDelays == {0, 1}

\* How long subprocess.run(..., timeout=PROVE_TIMEOUT_SECONDS) takes for a
\* tool that would run for dur.
tool_time(dur) ==
    IF dur > PROVE_TIMEOUT_SECONDS THEN PROVE_TIMEOUT_SECONDS ELSE dur

\* What dispatch does with a request, as far as time goes: a health or
\* attestation request or a rejected one is answered at once, a prove
\* request runs nargo and, unless nargo timed out, bb.
Works ==
    {[kind |-> "health", nargo |-> 0, bb |-> 0]}
    \cup {[kind |-> "prove", nargo |-> n, bb |-> b] :
             n \in ToolDurations, b \in ToolDurations}

handling_time(work) ==
    IF work.kind # "prove" THEN 0
    ELSE IF work.nargo > PROVE_TIMEOUT_SECONDS THEN PROVE_TIMEOUT_SECONDS
    ELSE work.nargo + tool_time(work.bb)

\* The response of the server, as the bridge and the client see it.
RelayResponse == <<"response">>

\* When the client, the bridge and the server can take their next step: at
\* once when what they wait for is there, else when their timeout expires.
ClientDue ==
    IF relay.c_pc \in {"sending", "closing"} THEN {relay.c_next} ELSE {}

BridgeDue ==
    CASE relay.b_pc \in {"connect", "forward", "reply"} -> {relay.now}
      [] relay.b_pc = "recv_tcp" ->
             IF relay.tcp_in # <<>> \/ relay.tcp_eof THEN {relay.now}
             ELSE {relay.b_deadline}
      [] relay.b_pc = "recv_vs" ->
             IF relay.vs_back # <<>> \/ relay.s_pc = "closed"
             THEN {relay.now}
             ELSE {relay.b_deadline}
      [] OTHER -> {}

ServerDue ==
    CASE relay.s_pc = "accept" -> {relay.s_accept_at}
      [] relay.s_pc = "recv" ->
             IF relay.vs_fwd # <<>> \/ relay.vs_shut \/ relay.b_pc = "closed"
             THEN {relay.now}
             ELSE {relay.s_deadline}
      [] relay.s_pc = "handle" -> {relay.s_done_at}
      [] OTHER -> {}

\* The step due at time t is the next one to happen.
Earliest(t) == \A u \in ClientDue \cup BridgeDue \cup ServerDue : t <= u

\* main of the bridge accepts a client and starts bridge() for it.
RelayAccept ==
    /\ relay.b_pc = "idle"
    /\ \E n \in 1..MaxChunks, gap \in ClientGaps :
           relay' = [relay EXCEPT !.b_pc = "connect", !.c_pc = "sending",
                                  !.c_left = n, !.c_next = relay.now + gap]
    /\ UNCHANGED <<conns, artifacts, fs, links, nsm>>

\* The client writes a chunk of its request; after the last one it goes
\* idle, or shuts down its writing side some time later.
ClientSend ==
    /\ relay.c_pc = "sending"
    /\ Earliest(relay.c_next)
    /\ \E gap \in ClientGaps, ending \in {"closing", "idle"} :
           LET chunk == Len(relay.request) + 1
               last == relay.c_left = 1
           IN  /\ ~last => ending = "idle"
               /\ relay' = [relay EXCEPT
                      !.now = relay.c_next,
                      !.request = Append(@, chunk),
                      !.tcp_in = IF relay.b_pc = "closed" THEN @
                                 ELSE Append(@, chunk),
                      !.c_left = @ - 1,
                      !.c_pc = IF last THEN ending ELSE "sending",
                      !.c_next = IF last /\ ending = "idle" THEN @
                                 ELSE relay.c_next + gap]
    /\ UNCHANGED <<conns, artifacts, fs, links, nsm>>

\* The client shuts down its writing side.
ClientHalfClose ==
    /\ relay.c_pc = "closing"
    /\ Earliest(relay.c_next)
    /\ relay' = [relay EXCEPT !.now = relay.c_next, !.c_pc = "half_closed",
                              !.tcp_eof = TRUE]
    /\ UNCHANGED <<conns, artifacts, fs, links, nsm>>

\* vs = socket.socket(...); vs.settimeout(30); vs.connect(...); data = b'';
\* tcp_conn.settimeout(5), and the first tcp_conn.recv is pending.  The
\* connection waits in the server's accept queue.
RelayConnect ==
    /\ relay.b_pc = "connect"
    /\ Earliest(relay.now)
    /\ \E delay \in AcceptDelays :
           relay' = [relay EXCEPT !.b_pc = "recv_tcp",
                                  !.b_deadline = relay.now + tcp_conn_timeout,
                                  !.s_pc = "accept",
                                  !.s_accept_at = relay.now + delay]
    /\ UNCHANGED <<conns, artifacts, fs, links, nsm>>

\* server.accept() returns the connection, the worker thread starts,
\* conn.settimeout(5.0), and the first conn.recv is pending.
RelayServerAccept ==
    /\ relay.s_pc = "accept"
    /\ Earliest(relay.s_accept_at)
    /\ relay' = [relay EXCEPT !.now = relay.s_accept_at, !.s_pc = "recv",
                              !.s_deadline = relay.s_accept_at + conn_timeout]
    /\ UNCHANGED <<conns, artifacts, fs, links, nsm>>

\* chunk = tcp_conn.recv(65536) returns bytes; data += chunk.
RelayRecvTcp ==
    /\ relay.b_pc = "recv_tcp"
    /\ relay.tcp_in # <<>>
    /\ Earliest(relay.now)
    /\ relay' = [relay EXCEPT !.data = @ \o relay.tcp_in, !.tcp_in = <<>>,
                              !.b_deadline = relay.now + tcp_conn_timeout]
    /\ UNCHANGED <<conns, artifacts, fs, links, nsm>>

\* tcp_conn.recv returns b'': break.
RelayTcpEof ==
    /\ relay.b_pc = "recv_tcp"
    /\ relay.tcp_in = <<>> /\ relay.tcp_eof
    /\ Earliest(relay.now)
    /\ relay' = [relay EXCEPT !.b_pc = "forward"]
    /\ UNCHANGED <<conns, artifacts, fs, links, nsm>>

\* tcp_conn.recv raises socket.timeout: break.
RelayTcpTimeout ==
    /\ relay.b_pc = "recv_tcp"
    /\ relay.tcp_in = <<>> /\ ~relay.tcp_eof
    /\ Earliest(relay.b_deadline)
    /\ relay' = [relay EXCEPT !.now = relay.b_deadline, !.b_pc = "forward"]
    /\ UNCHANGED <<conns, artifacts, fs, links, nsm>>

\* vs.sendall(data); vs.shutdown(SHUT_WR); resp = b'', and the first vs.recv
\* is pending.  When the server has closed the connection the two calls go
\* through unnoticed or raise, and the except and finally clauses follow.
RelayForward ==
    /\ relay.b_pc = "forward"
    /\ Earliest(relay.now)
    /\ \E raised \in IF relay.s_pc = "closed" THEN BOOLEAN ELSE {FALSE} :
           relay' = IF raised
                    THEN [relay EXCEPT !.b_pc = "closed"]
                    ELSE [relay EXCEPT
                             !.b_pc = "recv_vs",
                             !.vs_fwd = IF relay.s_pc = "closed" THEN @
                                        ELSE relay.data,
                             !.vs_shut = TRUE,
                             !.b_deadline = relay.now + vs_timeout]
    /\ UNCHANGED <<conns, artifacts, fs, links, nsm>>

\* chunk = vs.recv(65536) returns bytes; resp += chunk.
RelayRecvVs ==
    /\ relay.b_pc = "recv_vs"
    /\ relay.vs_back # <<>>
    /\ Earliest(relay.now)
    /\ relay' = [relay EXCEPT !.resp = @ \o relay.vs_back, !.vs_back = <<>>,
                              !.b_deadline = relay.now + vs_timeout]
    /\ UNCHANGED <<conns, artifacts, fs, links, nsm>>

\* vs.recv returns b'': break.
RelayVsEof ==
    /\ relay.b_pc = "recv_vs"
    /\ relay.vs_back = <<>> /\ relay.s_pc = "closed"
    /\ Earliest(relay.now)
    /\ relay' = [relay EXCEPT !.b_pc = "reply"]
    /\ UNCHANGED <<conns, artifacts, fs, links, nsm>>

\* vs.recv raises socket.timeout: break.
RelayVsTimeout ==
    /\ relay.b_pc = "recv_vs"
    /\ relay.vs_back = <<>> /\ relay.s_pc # "closed"
    /\ Earliest(relay.b_deadline)
    /\ relay' = [relay EXCEPT !.now = relay.b_deadline, !.b_pc = "reply"]
    /\ UNCHANGED <<conns, artifacts, fs, links, nsm>>

\* tcp_conn.sendall(resp), then the finally clause: vs.close() and
\* tcp_conn.close().
RelayReply ==
    /\ relay.b_pc = "reply"
    /\ Earliest(relay.now)
    /\ relay' = [relay EXCEPT !.tcp_out = relay.resp, !.b_pc = "closed",
                              !.tcp_in = <<>>]
    /\ UNCHANGED <<conns, artifacts, fs, links, nsm>>

\* chunk = conn.recv(65536) returns bytes; chunks.append(chunk).
RelayServerRecv ==
    /\ relay.s_pc = "recv"
    /\ relay.vs_fwd # <<>>
    /\ Earliest(relay.now)
    /\ relay' = [relay EXCEPT !.raw = @ \o relay.vs_fwd, !.vs_fwd = <<>>,
                              !.s_deadline = relay.now + conn_timeout]
    /\ UNCHANGED <<conns, artifacts, fs, links, nsm>>

\* The rest of handle_connection once the read loop has ended at time t:
\* an empty raw is logged and the connection closed; anything else is
\* decoded and dispatched, which takes the time the request's work takes.
ServerReadEnded(t) ==
    IF relay.raw = <<>>
    THEN relay' = [relay EXCEPT !.now = t, !.s_pc = "closed"]
    ELSE \E work \in Works :
             relay' = [relay EXCEPT !.now = t, !.s_pc = "handle",
                                    !.dispatched = TRUE, !.work = work,
                                    !.s_done_at = t + handling_time(work)]

\* conn.recv returns b'': break.
RelayServerEof ==
    /\ relay.s_pc = "recv"
    /\ relay.vs_fwd = <<>> /\ (relay.vs_shut \/ relay.b_pc = "closed")
    /\ Earliest(relay.now)
    /\ ServerReadEnded(relay.now)
    /\ UNCHANGED <<conns, artifacts, fs, links, nsm>>

\* conn.recv raises socket.timeout: pass.
RelayServerTimeout ==
    /\ relay.s_pc = "recv"
    /\ relay.vs_fwd = <<>> /\ ~(relay.vs_shut \/ relay.b_pc = "closed")
    /\ Earliest(relay.s_deadline)
    /\ ServerReadEnded(relay.s_deadline)
    /\ UNCHANGED <<conns, artifacts, fs, links, nsm>>

\* dispatch returns; conn.sendall(json.dumps(response)...) and the finally
\* clause.  When the bridge has closed the connection the bytes are lost or
\* sendall raises.
RelayServerSend ==
    /\ relay.s_pc = "handle"
    /\ Earliest(relay.s_done_at)
    /\ \E sent \in IF relay.b_pc = "closed" THEN {"lost", "raised"}
                   ELSE {"written"} :
           relay' = [relay EXCEPT
                        !.now = relay.s_done_at,
                        !.s_pc = "closed",
                        !.s_sent = sent,
                        !.vs_back = IF sent = "written" THEN RelayResponse
                                    ELSE @]
    /\ UNCHANGED <<conns, artifacts, fs, links, nsm>>

InitRelay ==
    /\ conns = [t \in Threads |-> Idle]
    /\ artifacts = AllArtifacts
    /\ fs = {}
    /\ links = [b \in BridgeThreads |-> Unlinked]
    /\ nsm = NsmClosed
    /\ relay = Unrelayed

NextRelay ==
    \/ RelayAccept
    \/ ClientSend
    \/ ClientHalfClose
    \/ RelayConnect
    \/ RelayServerAccept
    \/ RelayRecvTcp
    \/ RelayTcpEof
    \/ RelayTcpTimeout
    \/ RelayForward
    \/ RelayRecvVs
    \/ RelayVsEof
    \/ RelayVsTimeout
    \/ RelayReply
    \/ RelayServerRecv
    \/ RelayServerEof
    \/ RelayServerTimeout
    \/ RelayServerSend

SpecRelay == InitRelay /\ [][NextRelay]_vars

----------------------------------------------------------------------------
(* Vocabulary of the properties                                            *)

\* The event occurs in the trace.
Has(trace, event) == \E i \in DOMAIN trace : trace[i] = event

\* Every occurrence of `later` is preceded by an occurrence of `earlier`.
Precedes(trace, earlier, later) ==
    \A j \in DOMAIN trace :
        trace[j] = later => \E i \in 1..(j - 1) : trace[i] = earlier

\* The positions of a worker that is inside the with block of generate_proof.
InWithBlock == {"stage", "nargo", "bb", "attest", "leave_with"}

\* The workspaces on disk that worker t created.
WorkspacesOf(t) == {d \in fs : d.owner = t}

\* The external tools and the attestation client, as trace events.
ToolEvents ==
    {NargoEvent[k] : k \in DOMAIN NargoEvent}
    \cup {BbEvent[k] : k \in DOMAIN BbEvent}

----------------------------------------------------------------------------
(* C1 *)

\* C1: a workspace exists only while the generate_proof call that created it
\* is inside its with block, whatever path the call takes; it is removed
\* before handle_connection writes anything for that request; and so no
\* workspace is left once the requests have completed.
C1_WorkspaceNeverOutlivesCall ==
    /\ \A d \in fs :
          /\ conns[d.owner].pc \in InWithBlock
          /\ conns[d.owner].workdir = d.name
    /\ \A t \in Threads :
          /\ Has(conns[t].trace, "mkdtemp")
               /\ conns[t].pc \notin InWithBlock
             => Has(conns[t].trace, "rmtree") /\ WorkspacesOf(t) = {}
          /\ Has(conns[t].trace, "mkdtemp")
             => Precedes(conns[t].trace, "rmtree", "send")
    /\ (\A t \in Threads : conns[t].pc \in {"idle", "closed"}) => fs = {}

\* C1 witness: a prove request whose witness tool ran past the timeout has
\* been answered and closed, and its workspace is gone.
C1_Witness ==
    \E t \in Threads :
        /\ conns[t].pc = "closed"
        /\ Has(conns[t].trace, "mkdtemp")
        /\ Has(conns[t].trace, "nargo_overran")
        /\ Has(conns[t].trace, "send")
        /\ fs = {}

----------------------------------------------------------------------------
(* C2 *)

\* C2: handle_prove answers with type "proof" only if the witness tool
\* exited 0 within the timeout, a witness file was there, the prover exited 0
\* within the timeout and the proof file was there; every other answer of
\* handle_prove has type "error", carries an error message and has neither a
\* proof nor a publicInputs member.
C2_ProofOnlyAfterFullPipeline ==
    \A t \in Threads :
        LET c == conns[t] IN
        Has(c.trace, "handle_prove") /\ c.response # <<>> =>
            /\ c.response.type \in {"proof", "error"}
            /\ c.response.type = "proof" =>
                  /\ Has(c.trace, "nargo_exit0")
                  /\ Has(c.trace, "witness_present")
                  /\ Has(c.trace, "bb_exit0")
                  /\ Has(c.trace, "proof_present")
            /\ c.response.type = "error" =>
                  /\ "error" \in DOMAIN c.response
                  /\ c.response.error # <<>>
                  /\ "proof" \notin DOMAIN c.response
                  /\ "publicInputs" \notin DOMAIN c.response

\* C2 witness: both answers occur: this one is an error after the prover
\* exited 0 without leaving a proof file.
C2_Witness ==
    \E t \in Threads :
        /\ conns[t].pc = "closed"
        /\ Has(conns[t].trace, "bb_exit0")
        /\ Has(conns[t].trace, "proof_absent")
        /\ conns[t].response.type = "error"

----------------------------------------------------------------------------
(* C3 *)

\* C3 (as claimed): a connection that ends with an empty request body, the
\* read loop having ended on the half-close or the idle timeout, and on which
\* no write failed, has been sent an Error response with requestId "" by the
\* time it is closed.
C3_EmptyBodyGetsErrorResponse ==
    \A t \in Threads :
        LET c == conns[t] IN
        /\ c.pc = "closed"
        /\ c.raw.kind = "empty"
        /\ ~Has(c.trace, "read_error")
        /\ \A i \in DOMAIN c.sent : c.sent[i].wrote = "full"
        => \E i \in DOMAIN c.sent :
              /\ c.sent[i].doc.type = "error"
              /\ c.sent[i].doc.requestId = ""

----------------------------------------------------------------------------
(* C4 *)

\* C4: a connection whose non-empty body is not UTF-8, not JSON or not a JSON
\* object is closed without any handler having been dispatched; every
\* document handle_connection tries to write on it is an Error response with
\* requestId ""; it tries at least once, and when the socket takes the write
\* that Error response is the only document written.
C4_UndecodableBodyGetsErrorResponse ==
    \A t \in Threads :
        LET c == conns[t] IN
        c.raw.kind \in {"non_utf8", "bad_json", "not_object"} =>
            /\ ~Has(c.trace, "dispatch")
            /\ c.response = <<>>
            /\ c.pc \notin {"dispatch", "generate_proof", "handle_attestation"}
            /\ \A i \in DOMAIN c.sent :
                  /\ c.sent[i].doc.type = "error"
                  /\ c.sent[i].doc.requestId = ""
                  /\ c.sent[i].doc.error # <<>>
            /\ c.pc = "closed" =>
                  /\ Len(c.sent) >= 1
                  /\ c.sent[1].wrote = "full" => Len(c.sent) = 1
                  /\ c.trace[Len(c.trace)] = "close"

\* C4 witness: a JSON value that is not an object was answered with one
\* Error response and the connection is closed.
C4_Witness ==
    \E t \in Threads :
        /\ conns[t].pc = "closed"
        /\ conns[t].raw.kind = "not_object"
        /\ Len(conns[t].sent) = 1
        /\ conns[t].sent[1].wrote = "full"

----------------------------------------------------------------------------
(* C5 *)

\* C5: the response dispatch returns for a decoded request carries the
\* request's requestId, or "" when the request has none, whatever the type
\* of the request and whatever path the handler took.
C5_ResponseEchoesRequestId ==
    \A t \in Threads :
        LET c == conns[t] IN
        /\ c.response # <<>> =>
              /\ "requestId" \in DOMAIN c.response
              /\ "requestId" \in DOMAIN c.request
                 => c.response.requestId = c.request.requestId
              /\ "requestId" \notin DOMAIN c.request
                 => c.response.requestId = ""
        /\ Has(c.trace, "dispatch")
             /\ c.pc \in {"send", "finally", "outer_except", "closed"}
           => c.response # <<>>

\* C5 witness: a prove request with a requestId that failed in the pipeline
\* (here on the prover's timeout) has its response.
C5_Witness ==
    \E t \in Threads :
        /\ conns[t].pc = "send"
        /\ "requestId" \in DOMAIN conns[t].request
        /\ Has(conns[t].trace, "bb_overran")
        /\ conns[t].response.type = "error"

----------------------------------------------------------------------------
(* C6 *)

\* A prove request without a circuitId, or with neither a proverToml payload
\* nor a non-empty list of inputs.
LacksProveFields(r) ==
    \/ Get(r, "circuitId", "") = ""
    \/ /\ Get(r, "proverToml", "") = ""
       /\ ~(/\ Get(r, "inputs", NoInputs).isList
            /\ Get(r, "inputs", NoInputs).items # <<>>)

\* Worker t has created no workspace and invoked no external tool.
NothingStaged(t) ==
    /\ conns[t].pc \notin InWithBlock
    /\ ~Has(conns[t].trace, "mkdtemp")
    /\ \A e \in ToolEvents : ~Has(conns[t].trace, e)
    /\ WorkspacesOf(t) = {}

\* C6: a prove request that lacks circuitId, or that has neither a proverToml
\* payload nor a non-empty list of inputs, is answered by handle_prove with an
\* Error response; no workspace is created and no external tool is invoked.
C6_IncompleteProveRejected ==
    \A t \in Threads :
        LET c == conns[t] IN
        Get(c.request, "type", "") = "prove" /\ LacksProveFields(c.request) =>
            /\ NothingStaged(t)
            /\ c.pc \notin {"generate_proof", "handle_prove_return"}
            /\ Has(c.trace, "handle_prove") =>
                  c.response # <<>> /\ c.response.type = "error"

\* C6 witness: a prove request with a circuitId, no proverToml and an empty
\* list of inputs has been answered.
C6_Witness ==
    \E t \in Threads :
        LET c == conns[t] IN
        /\ c.pc = "closed"
        /\ Get(c.request, "type", "") = "prove"
        /\ Get(c.request, "circuitId", "") = "coinbase_attestation"
        /\ "proverToml" \notin DOMAIN c.request
        /\ "inputs" \in DOMAIN c.request
        /\ c.request.inputs = [isList |-> TRUE, items |-> <<>>]
        /\ c.response.type = "error"

----------------------------------------------------------------------------
(* C7 *)

\* The text ends with the text `suffix`.
EndsWith(text, suffix) ==
    /\ Len(text) >= Len(suffix)
    /\ SubSeq(text, Len(text) - Len(suffix) + 1, Len(text)) = suffix

\* The artifacts of a registered circuit that are not on disk, by label.
MissingLabels(circuit_id) ==
    {l \in {"bytecode", "vk"} : get_circuit_paths(circuit_id)[l] \notin artifacts}

----------------------------------------------------------------------------
(* C8 *)

\* The message of the timeout-specific Error response.
TimeoutMessage ==
    <<"Proof generation timed out after ", "1", "2", "0", "s">>

\* C8: once an external tool has run past the 120-unit timeout, no later
\* pipeline step runs (no prover after the witness tool, no read of the proof,
\* no attestation), the workspace is removed when the with block is left, and
\* the response of the request is the Error response with the timeout message.
C8_TimeoutFailsRequest ==
    \A t \in Threads :
        LET c == conns[t] IN
        Has(c.trace, "nargo_overran") \/ Has(c.trace, "bb_overran") =>
            /\ Has(c.trace, "nargo_overran") =>
                  /\ \A k \in DOMAIN BbEvent : ~Has(c.trace, BbEvent[k])
                  /\ ~Has(c.trace, "witness_present")
                  /\ ~Has(c.trace, "witness_absent")
            /\ ~Has(c.trace, "proof_present")
            /\ ~Has(c.trace, "proof_absent")
            /\ ~Has(c.trace, "nsm")
            /\ c.pc \in {"leave_with", "handle_prove_return", "send",
                          "outer_except", "finally", "closed"}
            /\ c.pc # "leave_with" =>
                  Has(c.trace, "rmtree") /\ WorkspacesOf(t) = {}
            /\ c.pc \notin {"leave_with", "handle_prove_return"} =>
                  c.response = ErrorResponse(Get(c.request, "requestId", ""),
                                             TimeoutMessage)

\* C8 witness: the prover ran past the timeout and the timeout Error was
\* written to the connection.
C8_Witness ==
    \E t \in Threads :
        LET c == conns[t] IN
        /\ c.pc = "closed"
        /\ Has(c.trace, "bb_overran")
        /\ Len(c.sent) = 1
        /\ c.sent[1].wrote = "full"
        /\ c.sent[1].doc.error = TimeoutMessage

----------------------------------------------------------------------------
(* C9 *)

\* "0x" + hex of the proof files of the model, written out.
KnownHex(bs) ==
    IF bs = <<10>> THEN <<"0", "x", "0", "a">>
    ELSE <<"0", "x", "f", "f", "0", "0">>

\* Base64 of the attestation documents of the model, written out.
KnownB64(bs) ==
    IF bs = <<77>> THEN <<"T", "Q", "=", "=">> ELSE <<"T", "W", "F", "u">>

\* The attestation client call of worker t returned a document.
ReturnedDocument(t) ==
    /\ conns[t].nsm_ret # <<>>
    /\ ~conns[t].nsm_ret[1].raised
    /\ conns[t].nsm_ret[1].value.some

\* C9: however the attestation step of generate_proof ends (a document, no
\* document, an exception), generate_proof returns the proof and publicInputs
\* read from the prover's output and handle_prove returns them as a Proof
\* response; attestationDocument is present exactly when the attestation
\* client returned a document, and is its base64 encoding.
C9_AttestationNeverChangesProof ==
    \A t \in Threads :
        LET c == conns[t] IN
        Has(c.trace, "handle_prove") /\ c.nsm_ret # <<>> =>
            /\ c.result # <<>>
            /\ c.pc \in {"leave_with", "handle_prove_return", "send"} =>
                  c.exc = NoExc
            /\ c.pc = "leave_with" =>
                  /\ c.result.proof = KnownHex(c.proof_bytes)
                  /\ c.result.publicInputs = c.public_inputs
            /\ "attestationDocument" \in DOMAIN c.result <=> ReturnedDocument(t)
            /\ c.pc \notin {"leave_with", "handle_prove_return"} =>
                  /\ c.response.type = "proof"
                  /\ c.response.proof = c.result.proof
                  /\ c.response.publicInputs = c.result.publicInputs
                  /\ "attestationDocument" \in DOMAIN c.response
                     <=> ReturnedDocument(t)
                  /\ ReturnedDocument(t) =>
                        c.response.attestationDocument
                            = KnownB64(c.nsm_ret[1].value.bytes)

\* C9 witness: the attestation step raised and the Proof response was built
\* all the same.
C9_Witness ==
    \E t \in Threads :
        LET c == conns[t] IN
        /\ c.pc = "closed"
        /\ Has(c.trace, "handle_prove")
        /\ c.nsm_ret # <<>>
        /\ c.nsm_ret[1].raised
        /\ c.response.type = "proof"
        /\ c.response.publicInputs # <<>>

----------------------------------------------------------------------------
(* C10 *)

\* C10: handle_attestation always returns a response with the request's
\* requestId and never raises: an Attestation response carrying the base64
\* encoding of the document when the attestation client returned one, an
\* Error response otherwise (proofHash not decodable, the client returned
\* none, or an exception).
C10_AttestationRequestAnswered ==
    \A t \in Threads :
        LET c == conns[t] IN
        Has(c.trace, "handle_attestation") /\ c.pc # "handle_attestation" =>
            /\ c.response # <<>>
            /\ c.pc = "send" => c.exc = NoExc
            /\ Len(c.nsm_ret) <= 1
            /\ c.response.requestId = Get(c.request, "requestId", "")
            /\ ReturnedDocument(t) =>
                  c.response =
                      [type |-> "attestation",
                       requestId |-> Get(c.request, "requestId", ""),
                       attestationDocument |->
                           KnownB64(c.nsm_ret[1].value.bytes)]
            /\ ~ReturnedDocument(t) =>
                  /\ c.response.type = "error"
                  /\ c.response.error # <<>>
                  /\ "attestationDocument" \notin DOMAIN c.response

\* C10 witness: an attestation request with a requestId and a proofHash was
\* answered with the document.
C10_Witness ==
    \E t \in Threads :
        LET c == conns[t] IN
        /\ c.pc = "closed"
        /\ Has(c.trace, "handle_attestation")
        /\ Get(c.request, "proofHash", <<>>) # <<>>
        /\ c.response.type = "attestation"
        /\ c.response.requestId = "r1"

----------------------------------------------------------------------------
(* C11 *)

\* The device is there, can be opened and driven, reports a positive
\* length, and its response decodes to a success envelope with a document.
SuccessEnvelope(dev) ==
    /\ dev.exists /\ dev.cbor2 /\ dev.open_ok /\ dev.ioctl_ok
    /\ dev.actual_len > 0
    /\ dev.decodable
    /\ "Attestation" \in DOMAIN dev.response
    /\ "document" \in DOMAIN dev.response.Attestation

\* C11: every call of get_nsm_attestation returns to its caller, whatever
\* the device does; it returns the document of a success envelope, and None
\* in every other case (no device file, open or ioctl failure, zero length,
\* undecodable response, failure envelope, any other shape).
C11_AttestationClientNeverRaises ==
    \A t \in Threads :
        LET c == conns[t] IN
        \A i \in DOMAIN c.nsm_call :
            ~c.nsm_call[i].raises =>
                LET dev == c.nsm_call[i].dev
                    ret == c.nsm_ret[i]
                IN  /\ ~ret.raised
                    /\ ret.value.some <=> SuccessEnvelope(dev)
                    /\ ret.value.some =>
                          ret.value.bytes = dev.response.Attestation.document
                    /\ ~ret.value.some => ret.value = None

\* C11 witness: the ioctl on an existing device failed and the call returned
\* None.
C11_Witness ==
    \E t \in Threads :
        LET c == conns[t] IN
        /\ c.nsm_call # <<>>
        /\ ~c.nsm_call[1].raises
        /\ c.nsm_call[1].dev.exists
        /\ ~c.nsm_call[1].dev.ioctl_ok
        /\ c.nsm_ret[1] = Returns(None)

----------------------------------------------------------------------------
(* C12 *)

IsPrefix(p, q) == Len(p) <= Len(q) /\ p = SubSeq(q, 1, Len(p))

----------------------------------------------------------------------------
(* C13 *)

\* C13: a worker that dispatched a health request holds exactly the response
\* type "health", status "ok" and the request's requestId ("" when it has
\* none), whatever the other workers are doing and whichever artifacts are
\* on disk; it has created no workspace, run no tool and made no call of the
\* attestation client.
C13_HealthAlwaysSucceeds ==
    \A t \in DOMAIN conns :
        LET c == conns[t] IN
        Has(c.trace, "dispatch") /\ Get(c.request, "type", PyNone) = "health"
        =>  /\ c.response = [type |-> "health", status |-> "ok",
                             requestId |-> Get(c.request, "requestId", "")]
            /\ c.exc = NoExc
            /\ WorkspacesOf(t) = {}
            /\ c.workdir = NoDir
            /\ \A i \in DOMAIN c.trace :
                  c.trace[i] \notin ToolEvents \cup {"mkdtemp", "nsm"}
            /\ c.nsm_call = <<>>

\* C13 witness: a health request was answered while another worker was
\* inside the proof pipeline and a circuit artifact was missing.
C13_Witness ==
    \E t \in DOMAIN conns, u \in DOMAIN conns :
        /\ t # u
        /\ conns[t].pc = "closed"
        /\ conns[t].response = [type |-> "health", status |-> "ok",
                                requestId |-> "r1"]
        /\ conns[u].pc = "bb"
        /\ artifacts # AllArtifacts

----------------------------------------------------------------------------
(* C14 *)

\* The request types dispatch has a handler for.
HandledTypes == {"health", "prove", "attestation"}

\* C14: a worker that dispatched a request whose type is none of health,
\* prove, attestation, or that has no type, holds an Error response with the
\* request's requestId whose message quotes the type (None when it is
\* missing); no handler ran, no workspace was created, no tool was run and
\* the attestation client was not called.
C14_UnknownTypeRejected ==
    \A t \in Threads :
        LET c == conns[t]
            tag == Get(c.request, "type", "None")
        IN
        Has(c.trace, "dispatch") /\ tag \notin HandledTypes
        =>  /\ c.response =
                  [type |-> "error",
                   requestId |-> Get(c.request, "requestId", ""),
                   error |-> <<"Unknown request type: '", tag, "'">>]
            /\ \A i \in DOMAIN c.trace :
                  c.trace[i] \notin
                      ToolEvents \cup {"mkdtemp", "nsm", "handle_health",
                                       "handle_prove", "handle_attestation"}
            /\ WorkspacesOf(t) = {}
            /\ c.nsm_call = <<>>
            /\ c.result = <<>>

\* C14 witness: a request without a type was answered with the error that
\* quotes None.
C14_Witness ==
    \E t \in Threads :
        LET c == conns[t] IN
        /\ c.pc = "closed"
        /\ Has(c.trace, "dispatch")
        /\ "type" \notin DOMAIN c.request
        /\ c.response.type = "error"
        /\ c.response.error = <<"Unknown request type: '", "None", "'">>
        /\ c.sent # <<>>

----------------------------------------------------------------------------
(* C15 *)

\* The text holds one line input_<i - 1> = "<items[i]>" for each item, in
\* order, each ended by a line feed, and nothing else.
OneLinePerInput(text, items) ==
    /\ Len(text) = 6 * Len(items)
    /\ \A i \in DOMAIN items :
          SubSeq(text, 6 * (i - 1) + 1, 6 * i)
              = <<"input_", Digits[i], " = \"", items[i], "\"", "\n">>

\* C15: the Prover.toml of a staged workspace is the request's proverToml,
\* verbatim, when the request carries a non-empty one, whatever its inputs;
\* otherwise it holds one line per input of the inputs list, in positional
\* order, with indices from 0.
C15_ProverTomlContent ==
    \A d \in fs :
        d.copied =>
            LET request == conns[d.owner].request
                prover_toml == Get(request, "proverToml", "")
                inputs == Get(request, "inputs", NoInputs)
            IN  IF prover_toml # ""
                THEN d.prover_toml = <<prover_toml>>
                ELSE inputs.isList /\ inputs.items # <<>>
                     /\ OneLinePerInput(d.prover_toml, inputs.items)

\* C15 witness: a request with both a proverToml and a list of inputs had
\* its proverToml written.
C15_Witness ==
    \E d \in fs :
        LET request == conns[d.owner].request IN
        /\ d.copied
        /\ "proverToml" \in DOMAIN request
        /\ "inputs" \in DOMAIN request
        /\ request.inputs.isList
        /\ Len(request.inputs.items) = MaxInputs
        /\ d.prover_toml = <<request.proverToml>>
        /\ request.proverToml # ""

----------------------------------------------------------------------------
(* C16 *)

\* Every worker inside the with block works on a directory that exists, that
\* it created itself and that no other worker works on; no two directories
\* have the same name.
OwnWorkspaceOnly ==
    /\ \A t \in DOMAIN conns :
          conns[t].workdir # NoDir =>
              /\ \E d \in fs : d.name = conns[t].workdir
              /\ \A d \in fs : d.name = conns[t].workdir => d.owner = t
              /\ \A u \in DOMAIN conns \ {t} :
                    conns[u].workdir # conns[t].workdir
    /\ \A d, e \in fs : d.name = e.name => d = e
    /\ \A d \in fs : conns[d.owner].workdir = d.name

\* A step creates, changes or removes only directories of the worker that
\* takes it, and removes one only by leaving the with block.
TouchesOwnWorkspaceOnly ==
    /\ \A d \in fs \ fs' :
          /\ conns'[d.owner] # conns[d.owner]
          /\ (\A e \in fs' : e.name # d.name) =>
                /\ conns[d.owner].pc = "leave_with"
                /\ conns'[d.owner].pc = "handle_prove_return"
    /\ \A d \in fs' \ fs : conns'[d.owner] # conns[d.owner]

\* C16: under every interleaving of concurrent requests, prove requests with
\* the same requestId and circuit among them, each worker stages, reads and
\* deletes only the workspace it created: no two workers share one, and no
\* worker changes or removes another's.
C16_WorkspaceExclusive ==
    []OwnWorkspaceOnly /\ [][TouchesOwnWorkspaceOnly]_vars

\* C16 witness: two prove requests with the same requestId and the same
\* circuit are in their pipelines at once, each in its own workspace.
C16_Witness ==
    /\ conns[1].pc = "bb" /\ conns[2].pc = "nargo"
    /\ conns[1].request = conns[2].request
    /\ conns[1].workdir # conns[2].workdir
    /\ Cardinality(fs) = 2

----------------------------------------------------------------------------
(* C17 *)

\* The hex digits of a proofHash: what follows its 0x prefix, if it has one.
HexDigitsOf(h) ==
    IF Len(h) >= 2 /\ h[1] = "0" /\ h[2] = "x" THEN SubSeq(h, 3, Len(h))
    ELSE h

\* C17 (as claimed): once handle_attestation has handled a request, the
\* attestation client was called once, with the bytes the hex digits of
\* proofHash encode when proofHash is a hex string with or without 0x
\* prefix, leading zero digits included, and with no bytes when proofHash is
\* absent or empty.
C17_ProofHashDecodedExactly ==
    \A t \in Threads :
        LET c == conns[t]
            h == Get(c.request, "proofHash", <<>>)
        IN
        Has(c.trace, "handle_attestation") /\ c.pc # "handle_attestation" =>
            IF h = <<>> THEN c.user_data = <<<<>>>>
            ELSE fromhex_ok(HexDigitsOf(h)) =>
                    c.user_data = <<fromhex(HexDigitsOf(h))>>

----------------------------------------------------------------------------
(* C18 *)

\* How many events of the trace are in the set.
Count(trace, events) == Cardinality({i \in DOMAIN trace : trace[i] \in events})

\* A run of the witness tool / of the prover that was started.
NargoRuns == {"nargo_overran", "nargo_exit0", "nargo_exit_nonzero"}

BbRuns == {"bb_overran", "bb_exit0", "bb_exit_nonzero"}

\* The events after which generate_proof raises.
StepFailures ==
    {"nargo_not_started", "nargo_overran", "nargo_exit_nonzero",
     "witness_absent", "bb_not_started", "bb_overran", "bb_exit_nonzero",
     "proof_absent"}

\* C18: within one prove request the witness tool runs at most once, after
\* Prover.toml was written and the circuit package copied; the prover runs
\* at most once, after the witness tool exited 0 and a witness file was
\* located, <circuit_name>.gz if it exists and witness.gz only if it does
\* not; the attestation client is called at most once, after the proof file
\* was read; and after a failed step the only thing that happens in the
\* pipeline is the removal of the workspace.
C18_PipelineOrder ==
    \A t \in Threads :
        LET c == conns[t]
            tr == c.trace
        IN
        Has(tr, "handle_prove") =>
            /\ Count(tr, NargoRuns \cup {"nargo_not_started"}) <= 1
            /\ Count(tr, BbRuns \cup {"bb_not_started"}) <= 1
            /\ Count(tr, {"nsm"}) <= 1
            /\ Len(c.nsm_call) <= 1
            /\ \A e \in NargoRuns \cup {"nargo_not_started"} :
                  /\ Precedes(tr, "mkdtemp", e)
                  /\ Precedes(tr, "write_toml", e)
                  /\ Precedes(tr, "copy", e)
            /\ \A e \in BbRuns \cup {"bb_not_started"} :
                  /\ Precedes(tr, "nargo_exit0", e)
                  /\ Precedes(tr, "witness_present", e)
            /\ Precedes(tr, "bb_exit0", "nsm")
            /\ Precedes(tr, "proof_present", "nsm")
            /\ c.pc = "bb" =>
                  LET named == NamedWitness(c.request.circuitId)
                      files == Dir(c.workdir).witness
                  IN  /\ c.witness_path \in files
                      /\ named \in files => c.witness_path = named
                      /\ c.witness_path \in {named, AltWitness}
            /\ c.pc = "attest" => c.proof_bytes \in ProofBytes
            /\ \A i \in DOMAIN tr :
                  tr[i] \in StepFailures =>
                      \A j \in (i + 1)..Len(tr) :
                          tr[j] \in {"rmtree", "send", "close"}

\* C18 witness: the pipeline ran to its end with both witness files present.
C18_Witness ==
    \E t \in Threads :
        LET c == conns[t] IN
        /\ c.pc = "attest"
        /\ Dir(c.workdir).witness
              = {NamedWitness(c.request.circuitId), AltWitness}
        /\ Has(c.trace, "bb_exit0")

----------------------------------------------------------------------------
(* C19 *)

\* C19 (as claimed): on every connection, whatever writes fail, the bytes
\* written are those of at most one document, whole or in part: once a
\* sendall has written some of a document, no later sendall writes anything.
C19_AtMostOneDocument ==
    \A t \in Threads :
        Cardinality({i \in DOMAIN conns[t].sent :
                        conns[t].sent[i].wrote # "none"}) <= 1

----------------------------------------------------------------------------
(* C20 *)

\* C20: every accepted connection is eventually closed by the finally
\* clause of handle_connection, whatever path the handler takes; the thread
\* then ends, and whenever no connection is being handled the next one can
\* be accepted.
C20_EveryConnectionClosed ==
    \A t \in Threads :
        /\ (conns[t].pc # "idle") ~> (conns[t].pc = "closed")
        /\ (conns[t].pc = "closed") ~> (conns[t].pc = "idle")
        /\ [](conns[t].pc = "closed" => EndsWith(conns[t].trace, <<"close">>))
        /\ [](conns[t].pc = "idle" => ENABLED Accept(t))

\* C20 witness: a connection on which the read failed and the write of the
\* response failed was closed.
C20_Witness ==
    \E t \in Threads :
        LET c == conns[t] IN
        /\ c.pc = "closed"
        /\ Has(c.trace, "read_error")
        /\ c.sent # <<>>
        /\ \A i \in DOMAIN c.sent : c.sent[i].wrote # "full"
        /\ EndsWith(c.trace, <<"close">>)

----------------------------------------------------------------------------
(* C21 *)

\* C21 (as claimed): on a connection whose read loop ended with a transport
\* error other than the idle timeout, no handler is dispatched on the bytes
\* read before the error.
C21_ReadErrorDispatchesNothing ==
    \A t \in Threads :
        Has(conns[t].trace, "read_error") =>
            /\ ~Has(conns[t].trace, "dispatch")
            /\ conns[t].pc \notin {"dispatch", "generate_proof",
                                   "handle_attestation"}


----------------------------------------------------------------------------
(* C22 *)

\* The handles on the attestation device that the calls in progress hold.
HeldFds == {nsm.calls[c].fd : c \in NsmCallers} \ {NoFd}

\* C22: a call of get_nsm_attestation holds a handle on the device only
\* between its os.open and its os.close; once it returns, having opened the
\* device, it has closed it, whether the ioctl succeeded or raised, so the
\* only handles open are those of calls still between open and close; calls
\* running at the same time hold different handles, point the device at
\* their own buffers and get the answer to their own request.
C22_DeviceHandleClosed ==
    /\ nsm.fds = HeldFds
    /\ \A c \in NsmCallers :
           LET k == nsm.calls[c]
           IN  /\ k.fd # NoFd <=> k.pc \in {"ioctl", "close"}
               /\ k.pc = "return" /\ Has(k.steps, "open") =>
                      k.steps \in {<<"open", "ioctl", "close">>,
                                   <<"open", "ioctl_raised", "close">>}
               /\ k.pc \in {"ioctl", "close", "decode"} =>
                      k.msg.request = c /\ k.msg.response = c
               /\ k.pc \in {"decode", "return"} /\ Has(k.steps, "ioctl") =>
                      k.resp_buf = <<[response |-> k.dev.response,
                                      request |-> request_payload(k.user_data)]>>
               /\ k.pc = "return" =>
                      k.ret = get_nsm_attestation(k.dev, k.user_data).value
               /\ \A d \in NsmCallers \ {c} :
                      k.fd # NoFd => nsm.calls[d].fd # k.fd

\* C22 witness: one call has returned after its ioctl raised and has closed
\* its handle, while another call holds the device open.
C22_Witness ==
    \E c, d \in NsmCallers :
        /\ c # d
        /\ nsm.calls[c].pc = "return"
        /\ nsm.calls[c].steps = <<"open", "ioctl_raised", "close">>
        /\ nsm.calls[d].pc = "close"
        /\ nsm.calls[d].fd \in nsm.fds
        /\ nsm.calls[d].user_data # nsm.calls[c].user_data

----------------------------------------------------------------------------
(* C23 *)

\* C23 (as claimed): once the server's read loop has ended on the
\* connection the bridge opened for a client that writes a request, the
\* server has read every chunk of that request and has dispatched it.
C23_ServerGetsWholeRequest ==
    relay.s_pc \in {"handle", "closed"} /\ relay.c_left = 0
        /\ relay.c_pc \in {"idle", "half_closed"} =>
            relay.raw = relay.request /\ relay.dispatched

----------------------------------------------------------------------------
(* C24 *)

\* C24 (as claimed): when the server has dispatched the relayed request and
\* has come to write its response, and the bridge has closed the inbound
\* connection, the bridge has written the whole response to the client.
C24_ResponseForwarded ==
    relay.dispatched /\ relay.s_sent # "none" /\ relay.b_pc = "closed" =>
        relay.tcp_out = RelayResponse

============================================================================
